---- MODULE Spec2Model ----
(***************************************************************************)
(* VLESS-over-XHTTP tunnel: the handshake decoder (read_atleast,           *)
(* read_vless_header) and the two session engines of the repository,       *)
(* netlify/functions/vless.ts (clientRequests) and the edge handler of     *)
(* part_005 (connections).                                                 *)
(*                                                                         *)
(* Bytes are naturals 0..255, byte arrays are sequences (JavaScript index  *)
(* i is TLA+ index i+1), strings are sequences of code points.             *)
(***************************************************************************)
EXTENDS Integers, Sequences, FiniteSets, TLC

VARIABLES
    src,            \* decoder harness: the fragments the byte source will yield
    out,            \* decoder harness: the result of read_vless_header on src
    impl,           \* the engine exercised: vless.ts sessions, vless.ts single stream, part_005
    now,            \* Date.now(), in units of ClockStepMs
    clientRequests, \* vless.ts: Map uuid -> {posts, lastActivity, writer, maxSeq, targetInfo}
    connections,    \* part_005: Map uuid -> {buffer, stream, vlessHeader, remoteConnection, lastActive}
    sinks,          \* every TransformStream writer created: owner, kind, open, written
    upstream,       \* every upstream channel the connector returned
    connectLog,     \* every connection attempt made on the connector
    resp,           \* the request handled last and the response it got
    hist,           \* per id: the POSTs handled during the current session's life
    life,           \* per id: how many sessions have been created under that id
    decoded,        \* handshakes decoded so far: {id, life, hostname, port}
    failResps,      \* (status, body) of every response to a handshake that failed to decode
    steps,          \* number of requests handled
    pumps           \* part_004: the upstream connection and the two pumps of relay()

decVars == << src, out >>
sessVars == << impl, now, clientRequests, connections, sinks, upstream,
              connectLog, resp, hist, life, decoded, failResps, steps, pumps >>
vars == << src, out, impl, now, clientRequests, connections, sinks, upstream,
          connectLog, resp, hist, life, decoded, failResps, steps, pumps >>

(***************************************************************************)
(* Part 1.  Utilities and the handshake decoder.                           *)
(***************************************************************************)

\* SETTINGS.UUID with the dashes removed, one hex digit per element.
UUID ==
    << 0,12, 15,8, 5,9, 2,7,   2,12, 7,1,   4,14, 8,7,
       9,13, 15,3,   11,1, 14,11, 7,13, 5,10, 9,14, 1,11 >>

\* parse_uuid: sixteen bytes, byte i from hex digits 2i and 2i+1.
parse_uuid(clean) ==
    [i \in 1..16 |-> 16 * clean[2 * i - 1] + clean[2 * i]]

\* validate_uuid with the loop bound one short (i < 15).
validate_uuid_Short(left, right) ==
    \A i \in 1..15 : left[i] = right[i]

\* validate_uuid: byte-wise comparison of the first sixteen positions.
validate_uuid(left, right) ==
    \A i \in 1..16 : left[i] = right[i]

\* header[i] were header an Int8Array: bytes above 127 read as negative.
At_Signed(h, i) == IF h[i + 1] > 127 THEN h[i + 1] - 256 ELSE h[i + 1]

\* header[i] of the source: zero-based index into a byte array.
At(h, i) == h[i + 1]

\* slice(from, to) with the end taken inclusive.
Slice_Inclusive(h, from, to) ==
    LET t == IF to + 1 > Len(h) THEN Len(h) ELSE to + 1
    IN  IF from >= t THEN << >> ELSE SubSeq(h, from + 1, t)

\* Uint8Array.prototype.slice(from, to), zero-based, end exclusive, clamped.
Slice(h, from, to) ==
    LET t == IF to > Len(h) THEN Len(h) ELSE to
    IN  IF from >= t THEN << >> ELSE SubSeq(h, from + 1, t)

\* Number.prototype.toString(radix) for a non-negative integer, as code points.
RECURSIVE ToRadix(_, _)
ToRadix(n, radix) ==
    LET d  == n % radix
        ch == IF d < 10 THEN 48 + d ELSE 87 + d
    IN  IF n < radix THEN << ch >> ELSE Append(ToRadix(n \div radix, radix), ch)

\* join(sep) after a reverse(): the last part comes first.
RECURSIVE Join_Backwards(_, _)
Join_Backwards(parts, sep) ==
    IF Len(parts) = 0 THEN << >>
    ELSE IF Len(parts) = 1 THEN parts[1]
    ELSE Join_Backwards(Tail(parts), sep) \o sep \o parts[1]

\* Array.prototype.join(sep) over a sequence of strings.
RECURSIVE Join(_, _)
Join(parts, sep) ==
    IF Len(parts) = 0 THEN << >>
    ELSE IF Len(parts) = 1 THEN parts[1]
    ELSE parts[1] \o sep \o Join(Tail(parts), sep)

IsCont(b) == b >= 128 /\ b <= 191

\* new TextDecoder().decode(bytes) before byte-order-mark removal: UTF-8 to
\* code points, an ill-formed subsequence becoming U+FFFD (65533).
RECURSIVE Utf8Raw(_)
Utf8Raw(b) ==
    IF Len(b) = 0 THEN << >>
    ELSE
      LET b1 == b[1]
          n  == Len(b)
          need == IF b1 < 128 THEN 0
                  ELSE IF b1 >= 194 /\ b1 <= 223 THEN 1
                  ELSE IF b1 >= 224 /\ b1 <= 239 THEN 2
                  ELSE IF b1 >= 240 /\ b1 <= 244 THEN 3
                  ELSE 4
          lo2 == IF b1 = 224 THEN 160 ELSE IF b1 = 240 THEN 144 ELSE 128
          hi2 == IF b1 = 237 THEN 159 ELSE IF b1 = 244 THEN 143 ELSE 191
          ok2 == n >= 2 /\ b[2] >= lo2 /\ b[2] <= hi2
          ok3 == ok2 /\ n >= 3 /\ IsCont(b[3])
          ok4 == ok3 /\ n >= 4 /\ IsCont(b[4])
          Rest(k) == Utf8Raw(SubSeq(b, k + 1, n))
      IN  IF need = 0 THEN << b1 >> \o Rest(1)
          ELSE IF need = 4 THEN << 65533 >> \o Rest(1)
          ELSE IF need = 1 THEN
                 IF ok2 THEN << (b1 - 192) * 64 + (b[2] - 128) >> \o Rest(2)
                 ELSE << 65533 >> \o Rest(1)
          ELSE IF need = 2 THEN
                 IF ok3 THEN << (b1 - 224) * 4096 + (b[2] - 128) * 64
                                + (b[3] - 128) >> \o Rest(3)
                 ELSE IF ok2 THEN << 65533 >> \o Rest(2)
                 ELSE << 65533 >> \o Rest(1)
          ELSE   IF ok4 THEN << (b1 - 240) * 262144 + (b[2] - 128) * 4096
                                + (b[3] - 128) * 64 + (b[4] - 128) >> \o Rest(4)
                 ELSE IF ok3 THEN << 65533 >> \o Rest(3)
                 ELSE IF ok2 THEN << 65533 >> \o Rest(2)
                 ELSE << 65533 >> \o Rest(1)

\* new TextDecoder().decode(bytes): a leading U+FEFF is dropped.
TextDecode(b) ==
    LET s == Utf8Raw(b)
    IN  IF Len(s) > 0 /\ s[1] = 65279 THEN Tail(s) ELSE s

\* The errors thrown by the decoder; `a` and `b` are the numbers the message
\* interpolates.
Err(kind, a, b) == [kind |-> kind, a |-> a, b |-> b]

\* read_atleast(reader, n).  The reader is the list of fragments `frags` of
\* which `pos` have been taken; a read past the last fragment yields done.
RECURSIVE read_atleast_loop(_, _, _, _, _, _, _)
read_atleast_loop(frags, pos, n, done, value, reads, totalRead) ==
    IF n > 0 /\ ~done THEN
        IF pos < Len(frags)
        THEN read_atleast_loop(frags, pos + 1, n - Len(frags[pos + 1]), FALSE,
                               value \o frags[pos + 1], reads + 1,
                               totalRead + Len(frags[pos + 1]))
        ELSE read_atleast_loop(frags, pos, n, TRUE, value, reads + 1, totalRead)
    ELSE IF n > 0
    THEN [ok |-> FALSE, err |-> Err("not enough data", n + totalRead, totalRead),
          value |-> value, done |-> done, pos |-> pos, reads |-> reads]
    ELSE [ok |-> TRUE, err |-> Err("none", 0, 0),
          value |-> value, done |-> done, pos |-> pos, reads |-> reads]

\* read_atleast with the loop running while n > 1
read_atleast_OneShort(frags, pos, n) ==
    LET r == read_atleast_loop(frags, pos, n - 1, FALSE, << >>, 0, 0)
    IN  IF r.ok THEN r
        ELSE [r EXCEPT !.err = Err("not enough data", r.err.a + 1, r.err.b)]

read_atleast(frags, pos, n) ==
    read_atleast_loop(frags, pos, n, FALSE, << >>, 0, 0)

\* The closure state of read_vless_header: header, readed_len, read_result.done,
\* plus the reader position and the number of reader.read() calls issued.
ReaderStart ==
    [ok |-> TRUE, err |-> Err("none", 0, 0), header |-> << >>, readed_len |-> 0,
     done |-> FALSE, pos |-> 0, reads |-> 0]

\* inner_read_until(offset) counting only what the last read returned
\* (readed_len = read_result.value.length)
inner_read_until_Assign(frags, st, offset) ==
    IF ~st.ok THEN st
    ELSE IF st.done
    THEN [st EXCEPT !.ok = FALSE, !.err = Err("header length too short", 0, 0)]
    ELSE
      LET len == offset - st.readed_len
      IN  IF len < 1 THEN st
          ELSE
            LET r == read_atleast(frags, st.pos, len)
            IN  IF ~r.ok
                THEN [st EXCEPT !.ok = FALSE, !.err = r.err, !.pos = r.pos,
                                !.reads = st.reads + r.reads]
                ELSE [st EXCEPT !.header = st.header \o r.value,
                                !.readed_len = Len(r.value),
                                !.done = r.done, !.pos = r.pos,
                                !.reads = st.reads + r.reads]

\* inner_read_until(offset)
inner_read_until(frags, st, offset) ==
    IF ~st.ok THEN st
    ELSE IF st.done
    THEN [st EXCEPT !.ok = FALSE, !.err = Err("header length too short", 0, 0)]
    ELSE
      LET len == offset - st.readed_len
      IN  IF len < 1 THEN st
          ELSE
            LET r == read_atleast(frags, st.pos, len)
            IN  IF ~r.ok
                THEN [st EXCEPT !.ok = FALSE, !.err = r.err, !.pos = r.pos,
                                !.reads = st.reads + r.reads]
                ELSE [st EXCEPT !.header = st.header \o r.value,
                                !.readed_len = st.readed_len + Len(r.value),
                                !.done = r.done, !.pos = r.pos,
                                !.reads = st.reads + r.reads]

COMMAND_TYPE_TCP == 1
ADDRESS_TYPE_IPV4 == 1
ADDRESS_TYPE_STRING == 2
ADDRESS_TYPE_IPV6 == 3

Failure(st, err) ==
    [ok |-> FALSE, err |-> err, version |-> 0, hostname |-> << >>, port |-> 0,
     data |-> << >>, resp |-> << >>, header_len |-> 0,
     reads |-> st.reads, pos |-> st.pos]

\* The hostname text with the two bytes of an IPv6 group taken low byte first.
Hostname_LowByteFirst(header, atype, idx) ==
    IF atype = ADDRESS_TYPE_IPV4
    THEN Join([i \in 1..4 |-> ToRadix(At(header, idx + i - 1), 10)], << 46 >>)
    ELSE IF atype = ADDRESS_TYPE_STRING
    THEN TextDecode(Slice(header, idx + 1, idx + 1 + At(header, idx)))
    ELSE IF atype = ADDRESS_TYPE_IPV6
    THEN Join([i \in 1..8 |->
                 ToRadix(At(header, idx + 2 * i - 1) * 256
                         + At(header, idx + 2 * i - 2), 16)], << 58 >>)
    ELSE << >>

\* The hostname text for each address type.
Hostname(header, atype, idx) ==
    IF atype = ADDRESS_TYPE_IPV4
    THEN Join([i \in 1..4 |-> ToRadix(At(header, idx + i - 1), 10)], << 46 >>)
    ELSE IF atype = ADDRESS_TYPE_STRING
    THEN TextDecode(Slice(header, idx + 1, idx + 1 + At(header, idx)))
    ELSE IF atype = ADDRESS_TYPE_IPV6
    THEN Join([i \in 1..8 |->
                 ToRadix(At(header, idx + 2 * i - 2) * 256
                         + At(header, idx + 2 * i - 1), 16)], << 58 >>)
    ELSE << >>

\* read_vless_header without the tests of lines 152-155 and 175-178: every
\* command is taken, an unknown address type is read on with header_len -1
read_vless_header_Unchecked(frags, cfg_uuid_str) ==
    LET s1 == inner_read_until(frags, ReaderStart, 1 + 16 + 1)
    IN  IF ~s1.ok THEN Failure(s1, s1.err)
        ELSE
          LET version == At(s1.header, 0)
              uuid == Slice(s1.header, 1, 1 + 16)
              cfg_uuid == parse_uuid(cfg_uuid_str)
          IN  IF ~validate_uuid(uuid, cfg_uuid)
              THEN Failure(s1, Err("invalid UUID", 0, 0))
              ELSE
                LET pb_len == At(s1.header, 1 + 16)
                    addr_plus1 == 1 + 16 + 1 + pb_len + 1 + 2 + 1
                    s2 == inner_read_until(frags, s1, addr_plus1 + 1)
                IN  IF ~s2.ok THEN Failure(s2, s2.err)
                    ELSE
                      LET cmd == At(s2.header, 1 + 16 + 1 + pb_len)
                          port == At(s2.header, addr_plus1 - 1 - 2) * 256
                                  + At(s2.header, addr_plus1 - 1 - 1)
                          atype == At(s2.header, addr_plus1 - 1)
                          header_len ==
                              IF atype = ADDRESS_TYPE_IPV4 THEN addr_plus1 + 4
                              ELSE IF atype = ADDRESS_TYPE_IPV6 THEN addr_plus1 + 16
                              ELSE IF atype = ADDRESS_TYPE_STRING
                              THEN addr_plus1 + 1 + At(s2.header, addr_plus1)
                              ELSE -1
                      IN    LET s3 == inner_read_until(frags, s2, header_len)
                            IN  IF ~s3.ok THEN Failure(s3, s3.err)
                                ELSE
                                  LET hostname == Hostname(s3.header, atype, addr_plus1)
                                  IN  IF hostname = << >>
                                      THEN Failure(s3, Err("parse hostname failed", 0, 0))
                                      ELSE [ok |-> TRUE, err |-> Err("none", 0, 0),
                                            version |-> version,
                                            hostname |-> hostname,
                                            port |-> port,
                                            data |-> Slice(s3.header, header_len,
                                                           Len(s3.header)),
                                            resp |-> << version, 0 >>,
                                            header_len |-> header_len,
                                            reads |-> s3.reads, pos |-> s3.pos]

\* read_vless_header returning no leftover: the bytes buffered past the header
\* are discarded
read_vless_header_NoLeftover(frags, cfg_uuid_str) ==
    LET s1 == inner_read_until(frags, ReaderStart, 1 + 16 + 1)
    IN  IF ~s1.ok THEN Failure(s1, s1.err)
        ELSE
          LET version == At(s1.header, 0)
              uuid == Slice(s1.header, 1, 1 + 16)
              cfg_uuid == parse_uuid(cfg_uuid_str)
          IN  IF ~validate_uuid(uuid, cfg_uuid)
              THEN Failure(s1, Err("invalid UUID", 0, 0))
              ELSE
                LET pb_len == At(s1.header, 1 + 16)
                    addr_plus1 == 1 + 16 + 1 + pb_len + 1 + 2 + 1
                    s2 == inner_read_until(frags, s1, addr_plus1 + 1)
                IN  IF ~s2.ok THEN Failure(s2, s2.err)
                    ELSE
                      LET cmd == At(s2.header, 1 + 16 + 1 + pb_len)
                          port == At(s2.header, addr_plus1 - 1 - 2) * 256
                                  + At(s2.header, addr_plus1 - 1 - 1)
                          atype == At(s2.header, addr_plus1 - 1)
                          header_len ==
                              IF atype = ADDRESS_TYPE_IPV4 THEN addr_plus1 + 4
                              ELSE IF atype = ADDRESS_TYPE_IPV6 THEN addr_plus1 + 16
                              ELSE IF atype = ADDRESS_TYPE_STRING
                              THEN addr_plus1 + 1 + At(s2.header, addr_plus1)
                              ELSE -1
                      IN  IF cmd # COMMAND_TYPE_TCP
                          THEN Failure(s2, Err("unsupported command", cmd, 0))
                          ELSE IF header_len < 0
                          THEN Failure(s2, Err("read address type failed", 0, 0))
                          ELSE
                            LET s3 == inner_read_until(frags, s2, header_len)
                            IN  IF ~s3.ok THEN Failure(s3, s3.err)
                                ELSE
                                  LET hostname == Hostname(s3.header, atype, addr_plus1)
                                  IN  IF hostname = << >>
                                      THEN Failure(s3, Err("parse hostname failed", 0, 0))
                                      ELSE [ok |-> TRUE, err |-> Err("none", 0, 0),
                                            version |-> version,
                                            hostname |-> hostname,
                                            port |-> port,
                                            data |-> << >>,
                                            resp |-> << version, 0 >>,
                                            header_len |-> header_len,
                                            reads |-> s3.reads, pos |-> s3.pos]

\* read_vless_header(reader, cfg_uuid_str)
read_vless_header(frags, cfg_uuid_str) ==
    LET s1 == inner_read_until(frags, ReaderStart, 1 + 16 + 1)
    IN  IF ~s1.ok THEN Failure(s1, s1.err)
        ELSE
          LET version == At(s1.header, 0)
              uuid == Slice(s1.header, 1, 1 + 16)
              cfg_uuid == parse_uuid(cfg_uuid_str)
          IN  IF ~validate_uuid(uuid, cfg_uuid)
              THEN Failure(s1, Err("invalid UUID", 0, 0))
              ELSE
                LET pb_len == At(s1.header, 1 + 16)
                    addr_plus1 == 1 + 16 + 1 + pb_len + 1 + 2 + 1
                    s2 == inner_read_until(frags, s1, addr_plus1 + 1)
                IN  IF ~s2.ok THEN Failure(s2, s2.err)
                    ELSE
                      LET cmd == At(s2.header, 1 + 16 + 1 + pb_len)
                          port == At(s2.header, addr_plus1 - 1 - 2) * 256
                                  + At(s2.header, addr_plus1 - 1 - 1)
                          atype == At(s2.header, addr_plus1 - 1)
                          header_len ==
                              IF atype = ADDRESS_TYPE_IPV4 THEN addr_plus1 + 4
                              ELSE IF atype = ADDRESS_TYPE_IPV6 THEN addr_plus1 + 16
                              ELSE IF atype = ADDRESS_TYPE_STRING
                              THEN addr_plus1 + 1 + At(s2.header, addr_plus1)
                              ELSE -1
                      IN  IF cmd # COMMAND_TYPE_TCP
                          THEN Failure(s2, Err("unsupported command", cmd, 0))
                          ELSE IF header_len < 0
                          THEN Failure(s2, Err("read address type failed", 0, 0))
                          ELSE
                            LET s3 == inner_read_until(frags, s2, header_len)
                            IN  IF ~s3.ok THEN Failure(s3, s3.err)
                                ELSE
                                  LET hostname == Hostname(s3.header, atype, addr_plus1)
                                  IN  IF hostname = << >>
                                      THEN Failure(s3, Err("parse hostname failed", 0, 0))
                                      ELSE [ok |-> TRUE, err |-> Err("none", 0, 0),
                                            version |-> version,
                                            hostname |-> hostname,
                                            port |-> port,
                                            data |-> Slice(s3.header, header_len,
                                                           Len(s3.header)),
                                            resp |-> << version, 0 >>,
                                            header_len |-> header_len,
                                            reads |-> s3.reads, pos |-> s3.pos]

(***************************************************************************)
(* Part 2.  Handshake byte strings used as inputs.                         *)
(***************************************************************************)

\* [1:version][16:secret][1:E][E:extra][1:command][2:port][1:addrType][addr][payload]
MkHandshake(version, secret, extra, cmd, portHi, portLo, atype, addr, payload) ==
    << version >> \o secret \o << Len(extra) >> \o extra
        \o << cmd, portHi, portLo, atype >> \o addr \o payload

Secret == parse_uuid(UUID)

\* 192.168.0.1:443 with five bytes of payload glued on.
HsIPv4 == MkHandshake(0, Secret, << >>, 1, 1, 187, 1, << 192, 168, 0, 1 >>,
                      << 10, 11, 12, 13, 14 >>)
\* "a.io":80, one extra byte, one byte of payload.
HsDomain == MkHandshake(0, Secret, << 7 >>, 1, 0, 80, 2, << 4, 97, 46, 105, 111 >>,
                        << 20 >>)
\* an IPv6 destination, no payload.
HsIPv6 == MkHandshake(1, Secret, << >>, 1, 31, 144, 3,
                      << 32, 1, 13, 184, 0, 0, 0, 0, 0, 0, 0, 0, 0, 0, 0, 1 >>, << >>)
\* unsupported command, unknown address type, empty host name, truncated header.
HsBadCmd == MkHandshake(0, Secret, << >>, 2, 1, 187, 1, << 192, 168, 0, 1 >>, << >>)
HsBadType == MkHandshake(0, Secret, << >>, 1, 1, 187, 4, << 192, 168, 0, 1 >>, << >>)
HsNoHost == MkHandshake(0, Secret, << >>, 1, 1, 187, 2, << 0 >>, << 9 >>)
HsShort == SubSeq(HsIPv4, 1, 24)

\* HsIPv4 with secret byte i (1..16) replaced by a different value.
WrongSecret(i, d) ==
    [HsIPv4 EXCEPT ![1 + i] = (HsIPv4[1 + i] + d) % 256]

WrongSecrets == { WrongSecret(i, d) : i \in 1..16, d \in {1, 128} }

\* A plain data chunk.
D1 == << 65, 66 >>

DecoderInputs ==
    { HsIPv4, HsDomain, HsIPv6, HsBadCmd, HsBadType, HsNoHost, HsShort }
        \cup WrongSecrets

\* The byte string cut at positions c1 <= c2 into up to three fragments, the way
\* a byte source may deliver it (empty pieces are not delivered).
Fragments(bytes, c1, c2) ==
    LET parts == << SubSeq(bytes, 1, c1), SubSeq(bytes, c1 + 1, c2),
                    SubSeq(bytes, c2 + 1, Len(bytes)) >>
    IN  SelectSeq(parts, LAMBDA f : Len(f) > 0)

RECURSIVE Flatten(_)
Flatten(frags) ==
    IF Len(frags) = 0 THEN << >> ELSE frags[1] \o Flatten(Tail(frags))

(***************************************************************************)
(* Part 3.  The decoder on its own: a byte source is set up, then          *)
(* read_vless_header runs on it.                                           *)
(***************************************************************************)

NoResult == [ok |-> FALSE, err |-> Err("not run", 0, 0)]

CutsOf(bytes) == 0..Len(bytes)

Feed ==
    /\ src = << >>
    /\ \E bytes \in DecoderInputs :
         \E c1 \in CutsOf(bytes) : \E c2 \in CutsOf(bytes) :
            /\ c1 <= c2
            /\ src' = Fragments(bytes, c1, c2)
    /\ out' = NoResult
    /\ UNCHANGED sessVars

Decode ==
    /\ out = NoResult
    /\ Len(src) > 0
    /\ out' = read_vless_header(src, UUID)
    /\ UNCHANGED << src >>
    /\ UNCHANGED sessVars

(***************************************************************************)
(* Part 4.  Shared pieces of the two session engines.                      *)
(***************************************************************************)

\* Bounds of the exploration.
MaxSteps == 3
MaxSeq == 2
MaxNow == 2
\* chunks a pump of relay() carries in one direction
MaxPump == 3

\* The clock is observed every ClockStepMs; the sweep removes what has been
\* idle for more than IdleTimeoutMs.
ClockStepMs == 20000
IdleTimeoutMs == 30000

\* The session ids the maps are indexed by, and those that send requests.
Ids == { "s1", "s2" }
Clients == { "s1" }
Seqs == 0..MaxSeq
\* Request bodies: two handshakes for different destinations and a data chunk
\* (which, read as a handshake, is a truncated one).
Chunks == { HsIPv4, HsDomain, D1 }
SingleBodies == { HsIPv4, WrongSecret(16, 1), HsBadCmd }

\* read_vless_header on a body delivered as one fragment, tabulated.
HeaderTable ==
    [data \in Chunks \cup SingleBodies |-> read_vless_header(<< data >>, UUID)]
HeaderOf(data) == HeaderTable[data]

\* JavaScript Map operations.
EmptyMap == << >>
Has(m, k) == k \in DOMAIN m
Put_Every(m, k, v) == [x \in (DOMAIN m) \cup {k} |-> v]
Put(m, k, v) == [x \in (DOMAIN m) \cup {k} |-> IF x = k THEN v ELSE m[x]]
Del(m, k) == [x \in (DOMAIN m) \ {k} |-> m[x]]
Size(m) == Cardinality(DOMAIN m)

\* undefined / null
NoWriter == 0
NoTarget == [hostname |-> << >>, port |-> -1]
NoHeader == [ok |-> FALSE]

\* new TransformStream() and its writer.  `dropped`: the client has cancelled
\* the readable side.  `pump`, `ch`: the relay call writing to the sink and the
\* upstream channel it reads ("run" while it holds the channel's reader).
\* `awaiting`: the handler that made the sink is suspended before recording it.
\* `stalled`: the client has stopped reading; `queued`: a write waits for it.
\* `held`: the session object the suspended handler still refers to, and its
\* life, once the sweep has taken it out of the store.
NewSink(owner, kind) ==
    [owner |-> owner, kind |-> kind, open |-> TRUE, written |-> << >>,
     dropped |-> FALSE, pump |-> "none", ch |-> 0, awaiting |-> FALSE,
     stalled |-> FALSE, queued |-> FALSE, held |-> << >>]

\* writer.write(chunk): rejects once the writer has been closed.
CanWrite(sk, w) == sk[w].open
Write(sk, w, entry) == [sk EXCEPT ![w].written = Append(@, entry)]
\* writer.close()
Close(sk, w) == [sk EXCEPT ![w].open = FALSE]

Preamble(version) == [from |-> "preamble", bytes |-> << version, 0 >>]
\* new Uint8Array([0x41, 0x43, 0x4B])
AckEntry == [from |-> "ack", bytes |-> << 65, 67, 75 >>]
\* new Uint8Array(n) filled with i % 256; only its length is kept.
MockEntry(n) == [from |-> "mock", bytes |-> << n >>]
DataEntry(from, bytes) == [from |-> from, bytes |-> bytes]

Response(method, id, seq, data, status, body, live, expected) ==
    [method |-> method, id |-> id, seq |-> seq, data |-> data,
     status |-> status, body |-> body, live |-> live, expected |-> expected]

\* status of a request whose handler never resumed
Pending == 0

Attempt(id, lf, hostname, port, method, ok) ==
    [id |-> id, life |-> lf, hostname |-> hostname, port |-> port,
     method |-> method, ok |-> ok]

Channel(id, lf, hostname, port) ==
    [id |-> id, life |-> lf, hostname |-> hostname, port |-> port,
     open |-> TRUE, written |-> << >>]

Decoded(id, lf, v) ==
    [id |-> id, life |-> lf, hostname |-> v.hostname, port |-> v.port]

\* part_004: Deno.connect's connection wrapped by tcpToWebStream, the client's
\* byte source and response sink, and relay() with its two pumps, before
\* relay() is called.  closes counts the calls of conn.close().
NoRelay ==
    [relay |-> "idle", up |-> "idle", down |-> "idle", upEnd |-> "none",
     conn |-> [readOpen |-> TRUE, writeOpen |-> TRUE, closes |-> 0],
     writable |-> "writable", readable |-> "readable", remoteEnded |-> FALSE,
     sink |-> "open", sent |-> 0, delivered |-> 0]

Init ==
    /\ src = << >>
    /\ out = NoResult
    /\ impl \in { "vless", "single", "part5" }
    /\ now = 0
    /\ clientRequests = EmptyMap
    /\ connections = EmptyMap
    /\ sinks = << >>
    /\ upstream = << >>
    /\ connectLog = << >>
    /\ resp = Response("none", "none", 0, << >>, Pending, "none", FALSE, 0)
    /\ hist = [id \in Ids |-> << >>]
    /\ life = [id \in Ids |-> 0]
    /\ decoded = {}
    /\ failResps = {}
    /\ steps = 0
    /\ pumps = NoRelay

InitDec ==
    /\ Init
    /\ impl = "vless"

Tick ==
    /\ now < MaxNow
    /\ now' = now + 1
    /\ UNCHANGED << src, out, pumps, impl, clientRequests, connections, sinks, upstream,
                    connectLog, resp, hist, life, decoded, failResps, steps >>

(***************************************************************************)
(* Part 5.  netlify/functions/vless.ts                                     *)
(***************************************************************************)

\* establishConnection(uuid, clientData) is called by vless.ts and defined
\* nowhere in it: the relay engine's open, which asks the connector for one
\* channel to the session's destination and throws when the connector fails.
establishConnection(up, log, uuid, lf, target, connOk) ==
    [ok |-> connOk,
     connectLog |-> Append(log, Attempt(uuid, lf, target.hostname, target.port,
                                        "connect", connOk)),
     upstream |-> IF connOk
                  THEN Append(up, Channel(uuid, lf, target.hostname, target.port))
                  ELSE up]

NewClientData(writer) ==
    [posts |-> EmptyMap, lastActivity |-> now, writer |-> writer, maxSeq |-> -1,
     targetInfo |-> NoTarget]

\* the try block of lines 340-357 running on although the decoder threw
HeaderParsed_IgnoreError(attempted, blocked, ok) == attempted /\ ~blocked

\* lines 350-351 and 484-485: read_vless_header returned a header
HeaderParsed(attempted, blocked, ok) == attempted /\ ~blocked /\ ok

\* line 339: the chunk is handed to the decoder
PostDecodes(seq, posts) == seq = 0 /\ Size(posts) = 1

\* handlePostRequest(request, uuid, seq) with body `data`.  `flows` tells
\* whether the write into the in-memory TransformStream of line 344 completes
\* (no reader has been taken from its readable side at that point); when it
\* does not, the handler never resumes.  `connOk` is the connector's answer.
handlePostRequest(uuid, seq, data, flows, connOk) ==
    LET isNew == ~Has(clientRequests, uuid)
        lf == IF isNew THEN life[uuid] + 1 ELSE life[uuid]
        cd0 == IF isNew THEN NewClientData(NoWriter) ELSE clientRequests[uuid]
        cd1 == [cd0 EXCEPT !.lastActivity = now, !.posts = Put(@, seq, data)]
        first == PostDecodes(seq, cd1.posts)
        blocked == first /\ ~flows
    IN  \E vless \in { HeaderOf(data) } :
    LET parsed == HeaderParsed(first, blocked, vless.ok)
        cd2 == IF parsed
               THEN [cd1 EXCEPT !.targetInfo =
                        [hostname |-> vless.hostname, port |-> vless.port]]
               ELSE cd1
        w == cd1.writer
        sendsPreamble == parsed /\ w # NoWriter /\ CanWrite(sinks, w)
        sendsAck == ~first /\ w # NoWriter /\ cd1.targetInfo # NoTarget
                    /\ CanWrite(sinks, w)
        \* the write of line 361 or 396 waits for a client that does not read:
        \* the handler goes no further
        stuck == (sendsPreamble \/ sendsAck) /\ sinks[w].stalled
        connects == sendsPreamble /\ ~stuck
        ec == establishConnection(upstream, connectLog, uuid, lf, cd2.targetInfo,
                                  connOk)
        sk1 == IF stuck THEN [sinks EXCEPT ![w].queued = TRUE]
               ELSE IF sendsPreamble THEN Write(sinks, w, Preamble(vless.version))
               ELSE IF sendsAck THEN Write(sinks, w, AckEntry)
               ELSE sinks
        sk2 == IF connects /\ ~ec.ok THEN Write(sk1, w, MockEntry(2048))
               ELSE sk1
        cd3 == IF blocked THEN cd1
               ELSE IF stuck THEN cd2
               ELSE [cd2 EXCEPT !.maxSeq = IF seq > @ THEN seq ELSE @]
        status == IF blocked \/ stuck THEN Pending ELSE 200
    IN  /\ impl = "vless"
        /\ steps < MaxSteps
        /\ first \/ flows
        /\ connects \/ connOk
        /\ clientRequests' = Put(clientRequests, uuid, cd3)
        /\ sinks' = sk2
        /\ upstream' = IF connects THEN ec.upstream ELSE upstream
        /\ connectLog' = IF connects THEN ec.connectLog ELSE connectLog
        /\ decoded' = IF first /\ ~blocked /\ vless.ok
                      THEN decoded \cup { Decoded(uuid, lf, vless) }
                      ELSE decoded
        /\ failResps' = IF first /\ ~blocked /\ ~vless.ok
                        THEN failResps \cup { [status |-> status, body |-> "OK"] }
                        ELSE failResps
        /\ resp' = Response("POST", uuid, seq, data, status, "OK", ~isNew,
                            cd0.maxSeq + 1)
        /\ hist' = [hist EXCEPT ![uuid] =
                       Append(@, [seq |-> seq, data |-> data, status |-> status])]
        /\ life' = [life EXCEPT ![uuid] = lf]
        /\ steps' = steps + 1
        /\ UNCHANGED << src, out, pumps, impl, now, connections >>

\* handleGetRequest(uuid).  `flows`: whether the writes into TransformStreams
\* nobody reads yet (lines 476 and 491) complete.
handleGetRequest(uuid, flows, connOk) ==
    LET isNew == ~Has(clientRequests, uuid)
        lf == IF isNew THEN life[uuid] + 1 ELSE life[uuid]
        w == Len(sinks) + 1
        sk0 == Append(sinks, NewSink(uuid, "downlink"))
        old == IF isNew THEN NoWriter ELSE clientRequests[uuid].writer
        sk1 == IF old # NoWriter THEN Close(sk0, old) ELSE sk0
        cd1 == IF isNew THEN NewClientData(w)
               ELSE [clientRequests[uuid] EXCEPT !.lastActivity = now,
                                                 !.writer = w]
        reparse == ~isNew /\ cd1.targetInfo # NoTarget /\ Has(cd1.posts, 0)
        blocked == reparse /\ ~flows
    IN  \E vless \in { IF reparse THEN HeaderOf(cd1.posts[0]) ELSE NoResult } :
    LET parsed == HeaderParsed(reparse, blocked, vless.ok)
        ec == establishConnection(upstream, connectLog, uuid, lf, cd1.targetInfo,
                                  connOk)
        sk2 == IF parsed THEN Write(sk1, w, Preamble(vless.version)) ELSE sk1
        sk3 == IF parsed /\ ~ec.ok THEN Write(sk2, w, MockEntry(2048)) ELSE sk2
        status == IF blocked THEN Pending ELSE 200
    IN  /\ impl = "vless"
        /\ steps < MaxSteps
        /\ reparse \/ flows
        /\ parsed \/ connOk
        /\ clientRequests' = Put(clientRequests, uuid, cd1)
        /\ sinks' = sk3
        /\ upstream' = IF parsed THEN ec.upstream ELSE upstream
        /\ connectLog' = IF parsed THEN ec.connectLog ELSE connectLog
        /\ decoded' = IF reparse /\ ~blocked /\ vless.ok
                      THEN decoded \cup { Decoded(uuid, lf, vless) }
                      ELSE decoded
        /\ resp' = Response("GET", uuid, 0, << >>, status, w, ~isNew, 0)
        /\ life' = [life EXCEPT ![uuid] = lf]
        /\ steps' = steps + 1
        /\ UNCHANGED << src, out, pumps, impl, now, connections, hist, failResps >>

\* GET handlers suspended at a time
MaxSuspended == 1

Suspended == { k \in 1..Len(sinks) : sinks[k].awaiting }

\* handleGetRequest(uuid) from its start to the await of line 455, for a
\* session whose writer has a write queued: close() settles only after the
\* writes queued before it, and those wait for the old client to read, so
\* other requests are handled before this handler goes on.  The old sink is
\* taken as closed from here on.
handleGetRequest_awaitClose(uuid) ==
    LET w == Len(sinks) + 1
        old == clientRequests[uuid].writer
    IN  /\ impl = "vless"
        /\ Cardinality(Suspended) < MaxSuspended
        /\ Has(clientRequests, uuid)
        /\ old # NoWriter
        /\ sinks[old].open
        /\ sinks[old].queued
        /\ sinks' = Append(Close(sinks, old),
                           [NewSink(uuid, "downlink") EXCEPT !.awaiting = TRUE])
        /\ clientRequests' = [clientRequests EXCEPT ![uuid].lastActivity = now]
        /\ resp' = Response("GET", uuid, 0, << >>, Pending, w, TRUE, 0)
        /\ UNCHANGED << src, out, pumps, impl, now, connections, upstream, connectLog,
                        hist, life, decoded, failResps, steps >>

\* The client of a GET response stops reading it.
StallSink(w) ==
    /\ impl = "vless"
    /\ sinks[w].kind = "downlink"
    /\ sinks[w].open
    /\ ~sinks[w].awaiting
    /\ ~sinks[w].stalled
    /\ sinks' = [sinks EXCEPT ![w].stalled = TRUE]
    /\ UNCHANGED << src, out, pumps, impl, now, clientRequests, connections, upstream,
                    connectLog, resp, hist, life, decoded, failResps, steps >>

\* handleGetRequest(uuid) from line 463 on, once the close() awaited for the
\* sink w has settled.
handleGetRequest_resume(w, flows, connOk) ==
    LET uuid == sinks[w].owner
        \* clientData is the object read at line 436: the one in the store
        \* unless the sweep has deleted it since
        inStore == sinks[w].held = << >>
        lf == IF inStore THEN life[uuid] ELSE sinks[w].held[2]
        cd0 == IF inStore THEN clientRequests[uuid] ELSE sinks[w].held[1]
        cd1 == [cd0 EXCEPT !.writer = w]
        reparse == cd1.targetInfo # NoTarget /\ Has(cd1.posts, 0)
        blocked == reparse /\ ~flows
        sk1 == [sinks EXCEPT ![w].awaiting = FALSE, ![w].held = << >>]
    IN  \E vless \in { IF reparse THEN HeaderOf(cd1.posts[0]) ELSE NoResult } :
    LET parsed == HeaderParsed(reparse, blocked, vless.ok)
        ec == establishConnection(upstream, connectLog, uuid, lf, cd1.targetInfo,
                                  connOk)
        sk2 == IF parsed THEN Write(sk1, w, Preamble(vless.version)) ELSE sk1
        sk3 == IF parsed /\ ~ec.ok THEN Write(sk2, w, MockEntry(2048)) ELSE sk2
        status == IF blocked THEN Pending ELSE 200
    IN  /\ impl = "vless"
        /\ sinks[w].awaiting
        /\ inStore => Has(clientRequests, uuid)
        /\ reparse \/ flows
        /\ parsed \/ connOk
        /\ clientRequests' = IF inStore THEN Put(clientRequests, uuid, cd1)
                             ELSE clientRequests
        /\ sinks' = sk3
        /\ upstream' = IF parsed THEN ec.upstream ELSE upstream
        /\ connectLog' = IF parsed THEN ec.connectLog ELSE connectLog
        /\ decoded' = IF reparse /\ ~blocked /\ vless.ok
                      THEN decoded \cup { Decoded(uuid, lf, vless) }
                      ELSE decoded
        /\ resp' = Response("GET", uuid, 0, << >>, status, w, TRUE, 0)
        /\ UNCHANGED << src, out, pumps, impl, now, connections, hist, life, failResps,
                        steps >>

\* the sweep's test passing one clock step before the idle timeout
Expired_Early(lastActivity) ==
    (now - lastActivity) * ClockStepMs > IdleTimeoutMs - ClockStepMs

Expired(lastActivity) == (now - lastActivity) * ClockStepMs > IdleTimeoutMs

\* the setInterval callback of lines 249-262
SweepClientRequests ==
    LET gone == { u \in DOMAIN clientRequests :
                    Expired(clientRequests[u].lastActivity) }
        closing == { clientRequests[u].writer : u \in gone } \ { NoWriter }
    IN  /\ impl = "vless"
        /\ gone # {}
        /\ sinks' = [i \in DOMAIN sinks |->
                        IF i \in closing THEN [sinks[i] EXCEPT !.open = FALSE]
                        ELSE IF sinks[i].awaiting /\ sinks[i].held = << >>
                                /\ sinks[i].owner \in gone
                        THEN [sinks[i] EXCEPT !.held =
                                << clientRequests[sinks[i].owner],
                                   life[sinks[i].owner] >>]
                        ELSE sinks[i]]
        /\ clientRequests' = [u \in (DOMAIN clientRequests) \ gone |->
                                 clientRequests[u]]
        /\ hist' = [id \in Ids |-> IF id \in gone THEN << >> ELSE hist[id]]
        /\ UNCHANGED << src, out, pumps, impl, now, connections, upstream, connectLog,
                        resp, life, decoded, failResps, steps >>

\* the bytes fetch() returned from the target
RemoteBody == << 72, 84 >>

\* startDataRelay(clientReader, clientWriter, firstPacket): four blocks of
\* 1024 synthetic bytes, one "ACK" per fragment the client still sends, then
\* the writer is closed.
RECURSIVE WriteAll(_, _, _)
WriteAll(sk, w, entries) ==
    IF Len(entries) = 0 THEN sk
    ELSE WriteAll(Write(sk, w, entries[1]), w, Tail(entries))

startDataRelay(sk, w, unread) ==
    Close(WriteAll(sk, w, [i \in 1..4 |-> MockEntry(1024)]
                          \o [i \in 1..unread |-> AckEntry]), w)

\* handleVlessRequest(request): the single-stream mode.  The request body is
\* delivered as the fragments `frags`.
handleVlessRequest(frags, flows, fetchOk) ==
    \E vless \in { read_vless_header(frags, UUID) } :
    LET blocked == vless.ok /\ ~flows
        w == Len(sinks) + 1
        sk0 == Append(sinks, NewSink("single", "downlink"))
        sk1 == Write(sk0, w, Preamble(vless.version))
        sk2 == IF fetchOk THEN Write(sk1, w, DataEntry("remote", RemoteBody))
               ELSE startDataRelay(sk1, w, Len(frags) - vless.pos)
        status == IF ~vless.ok THEN 400 ELSE IF blocked THEN Pending ELSE 200
        body == IF vless.ok THEN << "stream" >> ELSE << "VLESS Error: ", vless.err >>
    IN  /\ impl = "single"
        /\ steps < MaxSteps
        /\ (vless.ok \/ flows) /\ ((vless.ok /\ flows) \/ fetchOk)
        /\ sinks' = IF ~vless.ok THEN sinks ELSE IF blocked THEN sk0 ELSE sk2
        /\ connectLog' = IF vless.ok /\ ~blocked
                         THEN Append(connectLog,
                                     Attempt("single", steps + 1, vless.hostname,
                                             vless.port, "GET", fetchOk))
                         ELSE connectLog
        /\ upstream' = IF vless.ok /\ ~blocked /\ fetchOk
                       THEN Append(upstream, Channel("single", steps + 1,
                                                     vless.hostname, vless.port))
                       ELSE upstream
        /\ decoded' = IF vless.ok
                      THEN decoded \cup { Decoded("single", steps + 1, vless) }
                      ELSE decoded
        /\ failResps' = IF ~vless.ok
                        THEN failResps \cup { [status |-> status, body |-> body] }
                        ELSE failResps
        /\ resp' = Response("VLESS", "single", 0, Flatten(frags), status, body,
                            FALSE, 0)
        /\ steps' = steps + 1
        /\ UNCHANGED << src, out, pumps, impl, now, clientRequests, connections, hist,
                        life >>

(***************************************************************************)
(* Part 6.  The edge handler of part_005 (connections).                    *)
(***************************************************************************)

\* The methods connect_remote tries, maxRetries rounds of each.
Methods == << "GET", "HEAD", "POST" >>
maxRetries == 2

\* connect_remote(hostname, port): fetch with each method in turn, up to
\* maxRetries rounds, returning the first response body obtained.  firstOk is
\* the number of the first attempt the destination answers (0: none).
connect_remote(log, uuid, lf, hostname, port, firstOk) ==
    LET total == maxRetries * Len(Methods)
        made == IF firstOk = 0 \/ firstOk > total THEN total ELSE firstOk
        ok == firstOk >= 1 /\ firstOk <= total
    IN  [ok |-> ok,
         connectLog |-> log \o
            [k \in 1..made |->
                Attempt(uuid, lf, hostname, port,
                        Methods[((k - 1) % Len(Methods)) + 1], ok /\ k = made)]]

\* what the destination does with the attempts of one connect_remote call:
\* it answers none of them, or the second one
ConnectOutcomes == { 0, 2 }

NewConn ==
    [buffer |-> EmptyMap, stream |-> NoWriter, vlessHeader |-> NoHeader,
     remoteConnection |-> 0, lastActive |-> now]

\* POST branch of handler(req, context), lines 313-393.  `flows`: whether the
\* write of line 369 into a TransformStream without reader completes.
handlerPost(uuid, seqNum, data, flows, firstOk) ==
    LET isNew == ~Has(connections, uuid)
        lf == IF isNew THEN life[uuid] + 1 ELSE life[uuid]
        conn0 == IF isNew THEN NewConn ELSE connections[uuid]
        parses == seqNum = 0
                  /\ (conn0.vlessHeader = NoHeader \/ conn0.remoteConnection = 0)
    IN  \E vless \in { HeaderOf(data) } :
    LET cr == connect_remote(connectLog, uuid, lf, vless.hostname, vless.port,
                             firstOk)
        connects == parses /\ vless.ok
        failed == parses /\ (~vless.ok \/ ~cr.ok)
        blocked == connects /\ cr.ok /\ ~flows
        ch == Len(upstream) + 1
        w == Len(sinks) + 1
        conn1 == IF connects /\ cr.ok
                 THEN [conn0 EXCEPT !.vlessHeader = vless, !.remoteConnection = ch]
                 ELSE conn0
        conn2 == IF connects /\ cr.ok /\ ~blocked
                 THEN [conn1 EXCEPT !.stream = w] ELSE conn1
        conn3 == [conn2 EXCEPT !.buffer = Put(@, seqNum, data), !.lastActive = now]
        status == IF failed THEN 400 ELSE IF blocked THEN Pending ELSE 200
        body == IF failed THEN "Bad Request" ELSE "null"
    IN  /\ impl = "part5"
        /\ steps < MaxSteps
        /\ connects \/ firstOk = 0
        /\ (connects /\ cr.ok) \/ flows
        /\ connections' = IF failed THEN Del(connections, uuid)
                          ELSE IF blocked THEN Put(connections, uuid, conn1)
                          ELSE Put(connections, uuid, conn3)
        /\ connectLog' = IF connects THEN cr.connectLog ELSE connectLog
        /\ upstream' = IF connects /\ cr.ok
                       THEN Append(upstream, Channel(uuid, lf, vless.hostname,
                                                     vless.port))
                       ELSE upstream
        /\ sinks' = IF connects /\ cr.ok
                    THEN IF blocked THEN Append(sinks, NewSink(uuid, "pipe"))
                         ELSE Write(Append(sinks, NewSink(uuid, "pipe")), w,
                                    DataEntry("leftover", vless.data))
                    ELSE sinks
        /\ decoded' = IF connects THEN decoded \cup { Decoded(uuid, lf, vless) }
                      ELSE decoded
        /\ failResps' = IF parses /\ ~vless.ok
                        THEN failResps \cup { [status |-> status, body |-> body] }
                        ELSE failResps
        /\ resp' = Response("POST", uuid, seqNum, data, status, body, ~isNew, 0)
        /\ hist' = [hist EXCEPT ![uuid] =
                       IF failed THEN << >>
                       ELSE Append(@, [seq |-> seqNum, data |-> data,
                                       status |-> status])]
        /\ life' = [life EXCEPT ![uuid] = lf]
        /\ steps' = steps + 1
        /\ UNCHANGED << src, out, pumps, impl, now, clientRequests >>

\* Array.from(conn.buffer.entries()).sort(([a], [b]) => a - b).map(([_, data]) => data)
RECURSIVE SortedEntries(_)
SortedEntries(buffer) ==
    IF DOMAIN buffer = {} THEN << >>
    ELSE LET k == CHOOSE x \in DOMAIN buffer : \A y \in DOMAIN buffer : x <= y
         IN  << DataEntry("buffer", buffer[k]) >> \o SortedEntries(Del(buffer, k))

\* remoteStream.getReader() has been called by a relay that has not yet
\* released the lock (line 248)
ReaderLocked(sk, ch) ==
    \E k \in 1..Len(sk) : sk[k].pump = "run" /\ sk[k].ch = ch

\* GET branch of handler(req, context), lines 396-455.  `flows`: whether the
\* writes of lines 419 and 429, made before the response is returned, complete.
handlerGet(uuid, flows) ==
    LET found == Has(connections, uuid)
        conn == connections[uuid]
        w == Len(sinks) + 1
        sk0 == Append(sinks, NewSink(uuid, "downlink"))
        writes == (IF conn.vlessHeader # NoHeader
                   THEN << Preamble(conn.vlessHeader.version) >> ELSE << >>)
                  \o SortedEntries(conn.buffer)
        blocked == found /\ Len(writes) > 0 /\ ~flows
        relays == found /\ ~blocked /\ conn.remoteConnection # 0
        \* relay() takes the channel's reader at once; getReader() throws on a
        \* locked stream and the catch of lines 437-440 deletes the session
        thrown == relays /\ ReaderLocked(sinks, conn.remoteConnection)
        conn1 == [conn EXCEPT !.buffer = EmptyMap,
                              !.stream = IF conn.remoteConnection # 0 THEN w ELSE @]
        sk1 == WriteAll(sk0, w, writes)
        status == IF ~found THEN 404 ELSE IF blocked THEN Pending ELSE 200
    IN  /\ impl = "part5"
        /\ steps < MaxSteps
        /\ (found /\ Len(writes) > 0) \/ flows
        /\ sinks' = IF ~found THEN sinks
                    ELSE IF blocked THEN sk0
                    ELSE IF relays /\ ~thrown
                    THEN [sk1 EXCEPT ![w].pump = "run",
                                     ![w].ch = conn.remoteConnection]
                    ELSE sk1
        /\ connections' = IF thrown THEN Del(connections, uuid)
                          ELSE IF found /\ ~blocked
                          THEN Put(connections, uuid, conn1)
                          ELSE connections
        /\ hist' = IF thrown THEN [hist EXCEPT ![uuid] = << >>] ELSE hist
        /\ resp' = Response("GET", uuid, 0, << >>, status,
                            IF found THEN w ELSE "Not Found", found, 0)
        /\ steps' = steps + 1
        /\ UNCHANGED << src, out, pumps, impl, now, clientRequests, upstream, connectLog,
                        life, decoded, failResps >>

\* One turn of the loop of relay(remoteStream, responseWriter), lines 236-246,
\* for the relay writing to sink w.  `ev`: what reader.read() settles with.
\* `quiet`: whether the message of the error caught at line 250 holds
\* 'stream closed' or 'abort'; otherwise relay rethrows and the catch of lines
\* 437-440 deletes the session of that id.
relay(w, ev, quiet) ==
    LET uuid == sinks[w].owner
        writeFails == ev = "value" /\ (sinks[w].dropped \/ ~sinks[w].open)
        throws == (ev = "error" \/ writeFails) /\ ~quiet
    IN  /\ impl = "part5"
        /\ sinks[w].pump = "run"
        /\ ev = "value" => steps < MaxSteps
        /\ (ev = "error" \/ writeFails) \/ quiet
        /\ sinks' = IF ev = "value" /\ ~writeFails
                    THEN Write(sinks, w, DataEntry("remote", RemoteBody))
                    ELSE [sinks EXCEPT ![w].pump =
                             IF ev = "done" THEN "done"
                             ELSE IF ev = "error" THEN "failed" ELSE "stopped"]
        /\ connections' = IF throws THEN Del(connections, uuid) ELSE connections
        /\ hist' = IF throws THEN [hist EXCEPT ![uuid] = << >>] ELSE hist
        /\ steps' = IF ev = "value" THEN steps + 1 ELSE steps
        /\ UNCHANGED << src, out, pumps, impl, now, clientRequests, upstream, connectLog,
                        resp, life, decoded, failResps >>

\* The client gives up the response body of a GET: the readable side of the
\* sink is cancelled.
DropSink(w) ==
    /\ impl = "part5"
    /\ sinks[w].kind = "downlink"
    /\ ~sinks[w].dropped
    /\ sinks' = [sinks EXCEPT ![w].dropped = TRUE]
    /\ UNCHANGED << src, out, pumps, impl, now, clientRequests, connections, upstream,
                    connectLog, resp, hist, life, decoded, failResps, steps >>

\* the setInterval callback of lines 268-282.  remoteConnection is the body
\* of a fetch response, a ReadableStream: it has no close(), the call throws
\* and the throw is swallowed, so the channel stays as it is.
SweepConnections ==
    LET gone == { u \in DOMAIN connections : Expired(connections[u].lastActive) }
    IN  /\ impl = "part5"
        /\ gone # {}
        /\ connections' = [u \in (DOMAIN connections) \ gone |-> connections[u]]
        /\ hist' = [id \in Ids |-> IF id \in gone THEN << >> ELSE hist[id]]
        /\ UNCHANGED << src, out, pumps, impl, now, clientRequests, sinks, upstream,
                        connectLog, resp, life, decoded, failResps, steps >>

(***************************************************************************)
(* Part 7.  The specifications.                                            *)
(***************************************************************************)

Post ==
    \E uuid \in Clients : \E seq \in Seqs : \E data \in Chunks :
        \E flows \in BOOLEAN : \E connOk \in BOOLEAN :
            handlePostRequest(uuid, seq, data, flows, connOk)

Get ==
    \E uuid \in Clients : \E flows \in BOOLEAN : \E connOk \in BOOLEAN :
        handleGetRequest(uuid, flows, connOk)

SingleStream ==
    \E data \in SingleBodies :
        \E c \in { k \in { 0, 18 } : k <= Len(data) } : \E flows \in BOOLEAN : \E fetchOk \in BOOLEAN :
            handleVlessRequest(Fragments(data, c, Len(data)), flows, fetchOk)

PostP ==
    \E uuid \in Clients : \E seq \in Seqs : \E data \in Chunks :
        \E flows \in BOOLEAN : \E firstOk \in ConnectOutcomes :
            handlerPost(uuid, seq, data, flows, firstOk)

GetP ==
    \E uuid \in Clients : \E flows \in BOOLEAN : handlerGet(uuid, flows)

Next ==
    \/ Post
    \/ Get
    \/ SingleStream
    \/ SweepClientRequests
    \/ PostP
    \/ GetP
    \/ SweepConnections
    \/ Tick

Spec == Init /\ [][Next]_vars

NextDec == Feed \/ Decode

\* vless.ts with GET handlers that are suspended at their await of close().
InitGet ==
    /\ Init
    /\ impl = "vless"

GetAwaitClose ==
    \E uuid \in Clients : handleGetRequest_awaitClose(uuid)

GetResume ==
    \E w \in Suspended : \E flows \in BOOLEAN : \E connOk \in BOOLEAN :
        handleGetRequest_resume(w, flows, connOk)

Stall ==
    \E w \in 1..Len(sinks) : StallSink(w)

\* the GET and POST handlers of vless.ts, a GET suspended at line 455, the
\* clock and the sweep
NextRace ==
    \/ Post
    \/ Get
    \/ Stall
    \/ GetAwaitClose
    \/ GetResume
    \/ Tick
    \/ SweepClientRequests

SpecRace == InitGet /\ [][NextRace]_vars

\* vless.ts serving requests for several session ids.
PostAny ==
    \E uuid \in Ids : \E seq \in { 0, 1 } : \E data \in { HsIPv4, D1 } :
        \E flows \in BOOLEAN : \E connOk \in BOOLEAN :
            handlePostRequest(uuid, seq, data, flows, connOk)

GetAny ==
    \E uuid \in Ids : \E flows \in BOOLEAN : \E connOk \in BOOLEAN :
        handleGetRequest(uuid, flows, connOk)

NextMany ==
    \/ PostAny
    \/ GetAny
    \/ Tick

SpecMany == InitGet /\ [][NextMany]_vars

NextGet ==
    \/ Post
    \/ Get
    \/ Stall
    \/ GetAwaitClose
    \/ GetResume

SpecGet == InitGet /\ [][NextGet]_vars

\* part_005 with the relays it starts running and clients leaving.
InitRelay ==
    /\ Init
    /\ impl = "part5"

Relay ==
    \E w \in 1..Len(sinks) : \E ev \in { "value", "done", "error" } :
        \E quiet \in BOOLEAN : relay(w, ev, quiet)

Drop ==
    \E w \in 1..Len(sinks) : DropSink(w)

NextRelay ==
    \/ PostP
    \/ GetP
    \/ Relay
    \/ Drop

SpecRelay == InitRelay /\ [][NextRelay]_vars

SpecDec == InitDec /\ [][NextDec]_vars

(***************************************************************************)
(* Part 7b.  unnamed/part_004: tcpToWebStream and relay().                 *)
(***************************************************************************)

\* Deno.Conn.close(): both directions of the connection are shut.
conn_close(c) ==
    [readOpen |-> FALSE, writeOpen |-> FALSE, closes |-> c.closes + 1]

\* tcpToWebStream(conn).writable, close(): the sink's close() runs only on a
\* stream that is still writable, and calls conn.close(); on an errored
\* stream close() rejects and the sink is not told.
writable_close(p) ==
    IF p.writable = "writable"
    THEN [p EXCEPT !.writable = "closed", !.conn = conn_close(p.conn)]
    ELSE p

\* the response sink's writer, close()
sink_close(p) ==
    IF p.sink = "open" THEN [p EXCEPT !.sink = "closed"] ELSE p

\* relay(): the first packet goes to the upstream, the reply preamble to the
\* response sink, and the two pumps start; a failed write leaves through the
\* outer catch before any pump exists.
relay_start(firstOk, respOk) ==
    /\ impl = "part4"
    /\ pumps.relay = "idle"
    /\ pumps' =
         IF ~firstOk
         THEN [pumps EXCEPT !.relay = "returned", !.writable = "errored"]
         ELSE IF ~respOk
         THEN [pumps EXCEPT !.relay = "returned", !.sent = 1,
                            !.sink = "errored"]
         ELSE [pumps EXCEPT !.relay = "running", !.up = "running",
                            !.down = "running", !.sent = 1]
    /\ UNCHANGED << src, out, impl, now, clientRequests, connections, sinks,
                    upstream, connectLog, resp, hist, life, decoded,
                    failResps, steps >>

\* One turn of the uplink pump: clientReader.read() gives a chunk, the end of
\* the client's data or an error.  A chunk is written to the upstream; a write
\* that fails errors the writable.  Leaving the loop runs the finally block,
\* writer.close(); the pump rejects when the error's message has neither
\* 'connection' nor 'abort' in it (quiet = FALSE).
uplink(ev, writeOk, quiet) ==
    /\ impl = "part4"
    /\ pumps.up = "running"
    /\ ev = "value" => pumps.sent < MaxPump
    /\ pumps' =
         IF ev = "value" /\ writeOk /\ pumps.conn.writeOpen
                         /\ pumps.writable = "writable"
         THEN [pumps EXCEPT !.sent = @ + 1]
         ELSE IF ev = "value"
         THEN [writable_close([pumps EXCEPT !.writable = "errored"])
                 EXCEPT !.up = IF quiet THEN "done" ELSE "failed",
                        !.upEnd = "writeError"]
         ELSE IF ev = "done"
         THEN [writable_close(pumps) EXCEPT !.up = "done", !.upEnd = "eof"]
         ELSE [writable_close(pumps)
                 EXCEPT !.up = IF quiet THEN "done" ELSE "failed",
                        !.upEnd = "clientError"]
    /\ UNCHANGED << src, out, impl, now, clientRequests, connections, sinks,
                    upstream, connectLog, resp, hist, life, decoded,
                    failResps, steps >>

\* One turn of the downlink pump: reader.read() on tcpToWebStream's readable
\* gives what conn.read() gave, bytes, null at the upstream's end of data, or
\* an error; on a closed connection conn.read() gives no bytes.  Bytes are
\* written to the response sink.  Leaving the loop closes the response sink's
\* writer and releases the reader: the readable is not cancelled.
downlink(ev, writeOk, quiet) ==
    /\ impl = "part4"
    /\ pumps.down = "running"
    /\ ev = "value" => /\ pumps.conn.readOpen
                       /\ ~pumps.remoteEnded
                       /\ pumps.delivered < MaxPump
    /\ pumps' =
         IF ev = "value" /\ writeOk /\ pumps.sink = "open"
         THEN [pumps EXCEPT !.delivered = @ + 1]
         ELSE IF ev = "value"
         THEN [pumps EXCEPT !.sink = "errored",
                            !.down = IF quiet THEN "done" ELSE "failed"]
         ELSE IF ev = "done"
         THEN [sink_close(pumps)
                 EXCEPT !.down = "done", !.readable = "closed",
                        !.remoteEnded = pumps.remoteEnded \/ pumps.conn.readOpen]
         ELSE [sink_close(pumps)
                 EXCEPT !.down = IF quiet THEN "done" ELSE "failed",
                        !.readable = "errored",
                        !.remoteEnded = pumps.remoteEnded \/ pumps.conn.readOpen]
    /\ UNCHANGED << src, out, impl, now, clientRequests, connections, sinks,
                    upstream, connectLog, resp, hist, life, decoded,
                    failResps, steps >>

\* await Promise.all([uplink, downlink]): settles when both pumps are
\* fulfilled, or as soon as one of them rejects; relay() then returns, its
\* catch swallowing the rejection.
relay_join ==
    /\ impl = "part4"
    /\ pumps.relay = "running"
    /\ \/ pumps.up = "failed"
       \/ pumps.down = "failed"
       \/ pumps.up = "done" /\ pumps.down = "done"
    /\ pumps' = [pumps EXCEPT !.relay = "returned"]
    /\ UNCHANGED << src, out, impl, now, clientRequests, connections, sinks,
                    upstream, connectLog, resp, hist, life, decoded,
                    failResps, steps >>

PumpEvents == { "value", "done", "error" }

RelayStart ==
    \E firstOk \in BOOLEAN : \E respOk \in BOOLEAN : relay_start(firstOk, respOk)

Uplink ==
    \E ev \in PumpEvents : \E writeOk \in BOOLEAN : \E quiet \in BOOLEAN :
        uplink(ev, writeOk, quiet)

Downlink ==
    \E ev \in PumpEvents : \E writeOk \in BOOLEAN : \E quiet \in BOOLEAN :
        downlink(ev, writeOk, quiet)

RelayJoin == relay_join

InitPump ==
    /\ src = << >>
    /\ out = NoResult
    /\ impl = "part4"
    /\ now = 0
    /\ clientRequests = EmptyMap
    /\ connections = EmptyMap
    /\ sinks = << >>
    /\ upstream = << >>
    /\ connectLog = << >>
    /\ resp = Response("none", "none", 0, << >>, Pending, "none", FALSE, 0)
    /\ hist = [id \in Ids |-> << >>]
    /\ life = [id \in Ids |-> 0]
    /\ decoded = {}
    /\ failResps = {}
    /\ steps = 0
    /\ pumps = NoRelay

NextPump ==
    \/ RelayStart
    \/ Uplink
    \/ Downlink
    \/ RelayJoin

SpecPump == InitPump /\ [][NextPump]_vars

(***************************************************************************)
(* Part 8.  Properties.                                                    *)
(***************************************************************************)

\* The sixteen bytes of SETTINGS.UUID, written out.
ConfiguredSecret ==
    << 12, 248, 89, 39, 44, 113, 78, 135, 157, 243, 177, 235, 125, 90, 158, 27 >>

\* max buffered chunks per session, as the configuration is to provide it
MaxBufferedChunks == 2

SrcBytes == Flatten(src)

SecretDiffers ==
    /\ Len(SrcBytes) >= 18
    /\ \E i \in 1..16 : SrcBytes[1 + i] # ConfiguredSecret[i]

RECURSIVE PrefixLen(_, _)
PrefixLen(frags, k) ==
    IF k = 0 THEN 0 ELSE PrefixLen(frags, k - 1) + Len(frags[k])

\* how many fragments must be taken to hold n bytes
FragmentsFor(frags, n) ==
    CHOOSE k \in 1..Len(frags) :
        PrefixLen(frags, k) >= n /\ PrefixLen(frags, k - 1) < n

\* the POSTs of a session's life: 0, 1, .., k in order, each acknowledged
InOrder(h) ==
    /\ Len(h) > 0
    /\ \A k \in 1..Len(h) : h[k].seq = k - 1 /\ h[k].status = 200

\* chunk 0's leftover payload followed by the bodies of chunks 1..k
ExpectedUpstream(h) ==
    HeaderOf(h[1].data).data \o Flatten([k \in 1..(Len(h) - 1) |-> h[k + 1].data])

RECURSIVE WrittenTo(_, _, _)
WrittenTo(up, id, lf) ==
    IF Len(up) = 0 THEN << >>
    ELSE (IF up[1].id = id /\ up[1].life = lf THEN Flatten(up[1].written)
          ELSE << >>) \o WrittenTo(Tail(up), id, lf)

ChannelsOf(id, lf) ==
    { k \in 1..Len(upstream) : upstream[k].id = id /\ upstream[k].life = lf }

Accepted(id, seq) ==
    \E k \in 1..Len(hist[id]) : hist[id][k].seq = seq /\ hist[id][k].status = 200

\* C1: when the chunks of a session arrive strictly in order 0..k with a valid
\* handshake in chunk 0, the bytes written to the session's upstream channel
\* are chunk 0's leftover payload followed by the bodies of chunks 1..k.
C1_UpstreamIsLeftoverThenChunks ==
    \A id \in Clients :
        (InOrder(hist[id]) /\ HeaderOf(hist[id][1].data).ok)
            => WrittenTo(upstream, id, life[id]) = ExpectedUpstream(hist[id])

\* C2: a POST of a sequence number the session has already accepted changes
\* neither the session's counter, buffer, destination and bindings nor any sink
\* or upstream channel, and is acknowledged.
C2_RetransmitIsNoOp ==
    [][ \A id \in Clients :
          ( /\ steps' = steps + 1
            /\ resp'.method = "POST" /\ resp'.id = id /\ resp'.status # Pending
            /\ Accepted(id, resp'.seq) )
          => ( /\ resp'.status = 200
               /\ sinks' = sinks
               /\ upstream' = upstream
               /\ impl = "vless" =>
                     /\ Has(clientRequests', id)
                     /\ clientRequests'[id].posts = clientRequests[id].posts
                     /\ clientRequests'[id].maxSeq = clientRequests[id].maxSeq
                     /\ clientRequests'[id].targetInfo = clientRequests[id].targetInfo
                     /\ clientRequests'[id].writer = clientRequests[id].writer
               /\ impl = "part5" =>
                     /\ Has(connections', id)
                     /\ connections'[id].buffer = connections[id].buffer
                     /\ connections'[id].vlessHeader = connections[id].vlessHeader
                     /\ connections'[id].remoteConnection
                            = connections[id].remoteConnection
                     /\ connections'[id].stream = connections[id].stream ) ]_vars

\* C3: a POST whose sequence number lies beyond the next expected one removes
\* the live session from the store and is answered with a client error.
C3_GapDestroysSession ==
    ( /\ impl = "vless"
      /\ resp.method = "POST" /\ resp.live /\ resp.status # Pending
      /\ resp.seq > resp.expected )
    => ( ~Has(clientRequests, resp.id) /\ resp.status \in 400..499 )

\* C4: a handshake whose secret differs from the configured one in some byte
\* makes read_vless_header fail with the authentication error, and no read is
\* issued on the byte source beyond those that obtained the 18-byte prefix.
C4_WrongSecretFailsAtPrefix ==
    (out # NoResult /\ SecretDiffers)
        => /\ ~out.ok
           /\ out.err.kind = "invalid UUID"
           /\ out.reads = FragmentsFor(src, 18)
           /\ out.pos = FragmentsFor(src, 18)

\* a wrong-secret handshake has been decoded while fragments were still unread
C4_Witness ==
    /\ out # NoResult
    /\ SecretDiffers
    /\ out.pos < Len(src)

\* C5: every connection attempt, and every channel opened, is for a
\* destination that a handshake of that same session (or single-stream
\* request) decoded successfully.
C5_ConnectOnlyAfterDecode ==
    /\ \A k \in 1..Len(connectLog) :
          [id |-> connectLog[k].id, life |-> connectLog[k].life,
           hostname |-> connectLog[k].hostname, port |-> connectLog[k].port]
              \in decoded
    /\ \A k \in 1..Len(upstream) :
          [id |-> upstream[k].id, life |-> upstream[k].life,
           hostname |-> upstream[k].hostname, port |-> upstream[k].port]
              \in decoded

\* a session has had its upstream channel opened after a failed attempt
C5_Witness ==
    /\ Len(upstream) > 0
    /\ upstream[1].id \in Clients
    /\ Len(connectLog) > 1

\* C6: during the life of a session its upstream channel is opened at most
\* once.
C6_UpstreamOpenedAtMostOnce ==
    \A id \in Clients : Cardinality(ChannelsOf(id, life[id])) <= 1

\* C7: a session's decoded destination never changes while the session is in
\* the store.
C7_DestinationNeverChanges ==
    [][ \A id \in Clients :
          /\ ( /\ Has(clientRequests, id) /\ Has(clientRequests', id)
               /\ clientRequests[id].targetInfo # NoTarget )
             => clientRequests'[id].targetInfo = clientRequests[id].targetInfo
          /\ ( /\ Has(connections, id) /\ Has(connections', id)
               /\ connections[id].vlessHeader # NoHeader )
             => connections'[id].vlessHeader = connections[id].vlessHeader ]_vars

\* C8: when the handshake in chunk 0 of a new session fails to decode, no
\* session is left in the store for the id and the response is a client error.
C8_FailedHandshakeLeavesNoSession ==
    ( /\ resp.method = "POST" /\ resp.seq = 0 /\ ~resp.live
      /\ resp.status # Pending
      /\ ~HeaderOf(resp.data).ok )
    => ( /\ ~Has(clientRequests, resp.id)
         /\ ~Has(connections, resp.id)
         /\ resp.status \in 400..499 )

\* C9: all responses to handshakes that failed to decode have the same status
\* and the same body.
C9_FailureResponsesIndistinguishable ==
    Cardinality(failResps) <= 1

\* C10: a session's uplink buffer never holds more chunks than the configured
\* cap.
C10_BufferWithinCap ==
    \A id \in Clients :
        /\ Has(clientRequests, id)
              => Size(clientRequests[id].posts) <= MaxBufferedChunks
        /\ Has(connections, id)
              => Size(connections[id].buffer) <= MaxBufferedChunks

\* the sinks handed to clients as GET response bodies
DownlinkSinks == { w \in 1..Len(sinks) : sinks[w].kind = "downlink" }

\* C12: when a GET attaches to a live session whose handshake has been decoded
\* and is answered, the first thing written to the new sink is the reply
\* preamble.
C12_AttachWritesPreambleFirst ==
    ( /\ resp.method = "GET" /\ resp.live /\ resp.status = 200
      /\ \/ /\ Has(clientRequests, resp.id)
            /\ clientRequests[resp.id].targetInfo # NoTarget
         \/ /\ Has(connections, resp.id)
            /\ connections[resp.id].vlessHeader # NoHeader )
    => ( /\ Len(sinks[resp.body].written) > 0
         /\ sinks[resp.body].written[1].from = "preamble" )

\* C13: whatever is written to a downlink sink is the reply preamble, first,
\* or bytes read from the upstream channel.
C13_DownlinkCarriesOnlyUpstreamBytes ==
    \A w \in DownlinkSinks :
        \A k \in 1..Len(sinks[w].written) :
            \/ sinks[w].written[k].from = "remote"
            \/ k = 1 /\ sinks[w].written[k].from = "preamble"

\* C16: a GET for an id that has no session is answered not-found and leaves
\* the store without a session for the id.
C16_GetWithoutSessionIsNotFound ==
    ( resp.method = "GET" /\ ~resp.live /\ resp.status # Pending )
    => ( /\ resp.status = 404
         /\ ~Has(clientRequests, resp.id)
         /\ ~Has(connections, resp.id) )

\* the upstream channels of a session id that are still open
OpenChannelsOf(up, id) ==
    { k \in 1..Len(up) : up[k].id = id /\ up[k].open }

\* C17: when the sweep removes a session, none of the session's upstream
\* channels and neither its downlink sink is open afterwards.
C17_SweepClosesChannelAndSink ==
    [][ \A id \in Clients :
          /\ ( Has(clientRequests, id) /\ ~Has(clientRequests', id) )
             => ( /\ OpenChannelsOf(upstream', id) = {}
                  /\ clientRequests[id].writer # NoWriter
                        => ~sinks'[clientRequests[id].writer].open )
          /\ ( Has(connections, id) /\ ~Has(connections', id) /\ steps' = steps )
             => ( /\ OpenChannelsOf(upstream', id) = {}
                  /\ connections[id].stream # NoWriter
                        => ~sinks'[connections[id].stream].open ) ]_vars

\* the bootstrap timeout, as the configuration is to provide it: any value
\* below the idle timeout
BootstrapTimeoutMs == 10000

\* a session whose handshake has not been decoded
Unestablished(id) ==
    /\ Has(clientRequests, id)
    /\ clientRequests[id].targetInfo = NoTarget

\* C18: a session that has not become established and has been idle for more
\* than the bootstrap timeout satisfies the sweep's removal test.
C18_BootstrapTimeoutApplies ==
    \A id \in Clients :
        ( /\ Unestablished(id)
          /\ (now - clientRequests[id].lastActivity) * ClockStepMs
                > BootstrapTimeoutMs )
        => Expired(clientRequests[id].lastActivity)

\* the request handled by this step asked for a channel and did not get one
ConnectFailedInStep ==
    /\ Len(connectLog') > Len(connectLog)
    /\ ~connectLog'[Len(connectLog')].ok
    /\ resp'.id \in Clients
    /\ resp'.status # Pending

\* C20: when opening the upstream channel fails, the session is removed from
\* the store and the response differs from every response given to a
\* handshake that failed to decode.
C20_UnreachableUpstreamEndsSession ==
    [][ ConnectFailedInStep
        => ( /\ ~Has(clientRequests', resp'.id)
             /\ ~Has(connections', resp'.id)
             /\ [status |-> resp'.status, body |-> resp'.body] \notin failResps' )
      ]_vars

(***************************************************************************)
(* The session engine of vless.ts with its timer: time passes and the      *)
(* setInterval callback keeps being run.                                   *)
(***************************************************************************)

InitLive ==
    /\ Init
    /\ impl = "vless"

\* The clock goes on for as long as a session in the store has not reached
\* the idle timeout.
TickLive ==
    /\ \/ now < MaxNow
       \/ \E u \in DOMAIN clientRequests : ~Expired(clientRequests[u].lastActivity)
    /\ now' = now + 1
    /\ UNCHANGED << src, out, pumps, impl, clientRequests, connections, sinks, upstream,
                    connectLog, resp, hist, life, decoded, failResps, steps >>

PostLive ==
    \E uuid \in Clients : \E seq \in { 0, 1 } : \E data \in { HsIPv4, D1 } :
        \E flows \in BOOLEAN : \E connOk \in BOOLEAN :
            handlePostRequest(uuid, seq, data, flows, connOk)

NextLive ==
    \/ PostLive
    \/ Get
    \/ SweepClientRequests
    \/ TickLive

SpecLive ==
    /\ InitLive
    /\ [][NextLive]_vars
    /\ WF_vars(TickLive)
    /\ WF_vars(SweepClientRequests)

C14_PumpClosesSinkAtUpstreamEnd ==
    \A w \in DownlinkSinks :
        sinks[w].pump \in { "done", "failed" } => ~sinks[w].open

\* an established session one of whose downlink sinks the client has dropped
DroppedSinkOf(id) ==
    /\ Has(connections, id)
    /\ connections[id].remoteConnection # 0
    /\ \E w \in DownlinkSinks : sinks[w].owner = id /\ sinks[w].dropped

\* the upstream read side fails in this step
UpstreamFailsInStep ==
    \E w \in 1..Len(sinks) : sinks[w].pump = "run" /\ sinks'[w].pump = "failed"

\* C15: after the client has dropped a downlink sink of an established
\* session, and for as long as the upstream itself does not fail, the session
\* stays in the store with the same upstream channel, and the channel stays
\* open.
C15_DetachKeepsSessionAndUpstream ==
    [][ \A id \in Clients :
          ( DroppedSinkOf(id) /\ ~UpstreamFailsInStep )
          => ( /\ Has(connections', id)
               /\ connections'[id].remoteConnection
                      = connections[id].remoteConnection
               /\ upstream'[connections[id].remoteConnection].open ) ]_vars

\* C11: every open downlink sink of a session id that a handler has finished
\* setting up is the one recorded in the session.
C11_OneOpenSinkPerSession ==
    impl = "vless" =>
        \A w \in DownlinkSinks :
            ( sinks[w].owner \in Clients /\ sinks[w].open /\ ~sinks[w].awaiting )
            => ( /\ Has(clientRequests, sinks[w].owner)
                 /\ clientRequests[sinks[w].owner].writer = w )

\* C21: one request to open the upstream channel invokes the connector exactly
\* once: no step adds more than one connection attempt, and a failed attempt
\* is followed by no other in the same step.
C21_ConnectorInvokedOnce ==
    [][ /\ Len(connectLog') <= Len(connectLog) + 1
        /\ \A k \in (Len(connectLog) + 1)..(Len(connectLog') - 1) :
              connectLog'[k].ok ]_vars

\* max bytes per chunk, as the configuration is to provide it, on the scale of
\* the request bodies used here (SETTINGS.BUFFER_SIZE is read nowhere)
MaxChunkBytes == 16

\* C22: a POST whose body is larger than the maximum bytes per chunk is
\* answered with a client error and its body is not stored in the session.
C22_OversizedChunkRejected ==
    ( impl = "vless" /\ resp.method = "POST" /\ Len(resp.data) > MaxChunkBytes )
    => ( /\ resp.status \in 400..499
         /\ ~ ( /\ Has(clientRequests, resp.id)
                /\ Has(clientRequests[resp.id].posts, resp.seq)
                /\ clientRequests[resp.id].posts[resp.seq] = resp.data ) )

(***************************************************************************)
(* Part 9.  The decoder on families of handshakes.                         *)
(***************************************************************************)

\* Byte values at the ends of the range and where the decimal text grows.
ByteEdges == { 0, 9, 10, 99, 100, 255 }
\* Byte values around the sign bit and the ends of the range.
PortBytes == { 0, 1, 127, 128, 255 }
\* Byte values around the point where the hexadecimal text grows.
GroupBytes == { 0, 1, 15, 16, 255 }

Ipv4Handshakes ==
    { MkHandshake(0, Secret, << >>, 1, 1, 187, 1, << a, b, c, d >>, p) :
        a \in ByteEdges, b \in ByteEdges, c \in ByteEdges, d \in ByteEdges,
        p \in { << >>, << 10 >> } }

PortHandshakes ==
    { MkHandshake(v, Secret, extra, 1, hi, lo, 1, << 192, 168, 0, 1 >>, << >>) :
        v \in { 0, 1 }, extra \in { << >>, << 7 >>, << 7, 8 >> },
        hi \in PortBytes, lo \in PortBytes }

\* "a", "a.io", "é", "é.io", "€", U+1F600
WellFormedNames ==
    { << 97 >>, << 97, 46, 105, 111 >>, << 195, 169 >>,
      << 195, 169, 46, 105, 111 >>, << 226, 130, 172 >>,
      << 240, 159, 152, 128 >> }
\* a byte order mark before "a", a lone continuation byte after "a", a cut
\* sequence, a byte order mark alone
OtherNames ==
    { << 239, 187, 191, 97 >>, << 97, 128 >>, << 226, 130 >>,
      << 239, 187, 191 >> }

DomainHandshakes ==
    { MkHandshake(0, Secret, extra, 1, 0, 80, 2, << Len(n) >> \o n, p) :
        n \in WellFormedNames \cup OtherNames, extra \in { << >>, << 7 >> },
        p \in { << >>, << 20 >>, << 20, 21 >> } }

\* sixteen address bytes, all groups different, group k being (h, l)
Ipv6Addr(h, l, k) ==
    [i \in 1..16 |-> IF i = 2 * k - 1 THEN h ELSE IF i = 2 * k THEN l ELSE i]

Ipv6Handshakes ==
    { MkHandshake(0, Secret, << >>, 1, 31, 144, 3, Ipv6Addr(h, l, k), << >>) :
        h \in GroupBytes, l \in GroupBytes, k \in 1..8 }

\* every prefix of h that holds at least n bytes
PrefixesFrom(h, n) == { SubSeq(h, 1, m) : m \in n..Len(h) }

\* handshakes with another command, cut anywhere after the command byte
BadCmdHandshakes ==
    UNION { PrefixesFrom(MkHandshake(0, Secret, extra, cmd, 1, 187, atype,
                                     << 192, 168, 0, 1 >>, << >>),
                         19 + Len(extra)) :
              cmd \in { 0, 2, 3, 255 }, extra \in { << >>, << 7 >> },
              atype \in { 1, 4 } }

\* handshakes with another address type, cut anywhere after that byte
BadTypeHandshakes ==
    UNION { PrefixesFrom(MkHandshake(0, Secret, extra, 1, 1, 187, atype,
                                     << 192, 168, 0, 1, 5, 6 >>, << >>),
                         22 + Len(extra)) :
              atype \in { 0, 4, 5, 255 }, extra \in { << >>, << 7 >> } }

FamilyInputs ==
    Ipv4Handshakes \cup PortHandshakes \cup DomainHandshakes
        \cup Ipv6Handshakes \cup BadCmdHandshakes \cup BadTypeHandshakes

\* handshakes delivered under every split the source below can make
SplitInputs == { HsIPv4, HsDomain, HsIPv6 }

\* The byte string delivered k bytes at a time.
RECURSIVE Chunked(_, _)
Chunked(bytes, k) ==
    IF Len(bytes) = 0 THEN << >>
    ELSE IF Len(bytes) <= k THEN << bytes >>
    ELSE << SubSeq(bytes, 1, k) >> \o Chunked(SubSeq(bytes, k + 1, Len(bytes)), k)

\* a family member arrives whole or one byte at a time
FeedFamily ==
    /\ src = << >>
    /\ \E bytes \in FamilyInputs : \E k \in { 1, Len(bytes) } :
          src' = Chunked(bytes, k)
    /\ out' = NoResult
    /\ UNCHANGED sessVars

\* a handshake arrives in pieces of one size, or cut at any two places
FeedSplit ==
    /\ src = << >>
    /\ \E bytes \in SplitInputs :
          \/ \E k \in 1..Len(bytes) : src' = Chunked(bytes, k)
          \/ \E c1 \in CutsOf(bytes) : \E c2 \in CutsOf(bytes) :
                /\ c1 <= c2
                /\ src' = Fragments(bytes, c1, c2)
    /\ out' = NoResult
    /\ UNCHANGED sessVars

NextHs ==
    \/ FeedFamily
    \/ FeedSplit
    \/ Decode

SpecHs == InitDec /\ [][NextHs]_vars

\* The fields of the handshake the source delivers, by the wire layout
\* [1:version][16:secret][1:E][E:extra][1:command][2:port][1:addrType][addr].
HsSecretOk ==
    Len(SrcBytes) >= 18 /\ SubSeq(SrcBytes, 2, 17) = ConfiguredSecret
HsExtraLen == SrcBytes[18]
\* the number of bytes before the address
addrOffset == 1 + 16 + 1 + HsExtraLen + 1 + 2 + 1
HsCmd == SrcBytes[addrOffset - 3]
HsPortHi == SrcBytes[addrOffset - 2]
HsPortLo == SrcBytes[addrOffset - 1]
HsAtype == SrcBytes[addrOffset]
HsAddr(n) == SubSeq(SrcBytes, addrOffset + 1, addrOffset + n)
HsNameLen == SrcBytes[addrOffset + 1]
HsName == SubSeq(SrcBytes, addrOffset + 2, addrOffset + 1 + HsNameLen)
HsAddrLen ==
    IF HsAtype = 1 THEN 4
    ELSE IF HsAtype = 3 THEN 16
    ELSE IF Len(SrcBytes) > addrOffset THEN 1 + HsNameLen
    ELSE 1

\* the byte order mark alone, which decodes to the empty host name
BomOnly == << 239, 187, 191 >>

\* The handshake is whole and well formed: right secret, supported command, a
\* known address type, all address bytes present, a host name that is not
\* empty.
ValidHandshake ==
    /\ HsSecretOk
    /\ Len(SrcBytes) >= addrOffset
    /\ HsCmd = 1
    /\ HsAtype \in { 1, 2, 3 }
    /\ Len(SrcBytes) >= addrOffset + HsAddrLen
    /\ HsAtype = 2 => ( HsNameLen >= 1 /\ HsName # BomOnly )

\* read_vless_header has run on the source
DecoderRan == out # NoResult

\* String.prototype.split(sep) for a one-character separator.
RECURSIVE Split(_, _)
Split(str, sep) ==
    IF \A i \in 1..Len(str) : str[i] # sep THEN << str >>
    ELSE LET k == CHOOSE i \in 1..Len(str) :
                    str[i] = sep /\ \A j \in 1..(i - 1) : str[j] # sep
         IN  << SubSeq(str, 1, k - 1) >>
                 \o Split(SubSeq(str, k + 1, Len(str)), sep)

\* the value of a digit character, 99 when it is none
DigitValue(ch) ==
    IF ch >= 48 /\ ch <= 57 THEN ch - 48
    ELSE IF ch >= 97 /\ ch <= 102 THEN ch - 87
    ELSE 99

IsNumeral(str, radix) ==
    Len(str) >= 1 /\ \A i \in 1..Len(str) : DigitValue(str[i]) < radix

\* parseInt(str, radix) for a numeral
RECURSIVE ParseRadix(_, _)
ParseRadix(str, radix) ==
    IF Len(str) = 0 THEN 0
    ELSE ParseRadix(SubSeq(str, 1, Len(str) - 1), radix) * radix
            + DigitValue(str[Len(str)])

\* C23: a valid handshake with address type 1 and address bytes a, b, c, d
\* decodes to the host name made of the four decimal values joined by dots, in
\* that order.
C23_Ipv4DottedDecimal ==
    ( DecoderRan /\ ValidHandshake /\ HsAtype = 1 )
    => /\ out.ok
       /\ LET parts == Split(out.hostname, 46)
          IN  /\ Len(parts) = 4
              /\ \A i \in 1..4 :
                    /\ IsNumeral(parts[i], 10)
                    /\ ParseRadix(parts[i], 10) = HsAddr(4)[i]

C23_Witness ==
    /\ DecoderRan /\ ValidHandshake /\ HsAtype = 1
    /\ HsAddr(4) = << 255, 0, 10, 100 >>
    /\ Len(src) > 1
    /\ out.ok

\* C24: the decoded port of a valid handshake is 256 * hi + lo, hi and lo being
\* the two bytes before the address-type byte, and lies in 0..65535.
C24_PortBigEndian ==
    ( DecoderRan /\ ValidHandshake )
    => /\ out.ok
       /\ out.port = 256 * HsPortHi + HsPortLo
       /\ out.port \in 0..65535

C24_Witness ==
    /\ DecoderRan /\ ValidHandshake
    /\ HsExtraLen = 2 /\ HsPortHi = 255 /\ HsPortLo = 128
    /\ out.ok /\ out.port = 65408

\* C26: a valid handshake with address type 3 decodes to a host name of eight
\* groups joined by ':', group i being the 16-bit big-endian value of address
\* bytes 2i and 2i+1 (i from 0).
C26_Ipv6EightGroups ==
    ( DecoderRan /\ ValidHandshake /\ HsAtype = 3 )
    => /\ out.ok
       /\ LET parts == Split(out.hostname, 58)
          IN  /\ Len(parts) = 8
              /\ \A i \in 1..8 :
                    /\ IsNumeral(parts[i], 16)
                    /\ ParseRadix(parts[i], 16)
                         = 256 * HsAddr(16)[2 * i - 1] + HsAddr(16)[2 * i]

C26_Witness ==
    /\ DecoderRan /\ ValidHandshake /\ HsAtype = 3
    /\ HsAddr(16)[5] = 255 /\ HsAddr(16)[6] = 1
    /\ out.ok

\* The UTF-8 bytes of a sequence of code points.
RECURSIVE Utf8Encode(_)
Utf8Encode(str) ==
    IF Len(str) = 0 THEN << >>
    ELSE LET c == str[1]
             b == IF c < 128 THEN << c >>
                  ELSE IF c < 2048
                  THEN << 192 + (c \div 64), 128 + (c % 64) >>
                  ELSE IF c < 65536
                  THEN << 224 + (c \div 4096), 128 + ((c \div 64) % 64),
                          128 + (c % 64) >>
                  ELSE << 240 + (c \div 262144), 128 + ((c \div 4096) % 64),
                          128 + ((c \div 64) % 64), 128 + (c % 64) >>
         IN  b \o Utf8Encode(Tail(str))

\* What UTF-8 decoding makes of the names that are not plain well-formed
\* text: a leading byte order mark is not part of the text, an ill-formed
\* sequence reads as U+FFFD.
ReplacedText(name) ==
    IF name = << 239, 187, 191, 97 >> THEN << 97 >>
    ELSE IF name = << 97, 128 >> THEN << 97, 65533 >>
    ELSE IF name = << 226, 130 >> THEN << 65533 >>
    ELSE << >>

\* the bytes of the source that follow its first n bytes
BytesAfter(n) == SubSeq(SrcBytes, n + 1, Len(SrcBytes))
\* the bytes the decoder has left in the source
Unread == Flatten(SubSeq(src, out.pos + 1, Len(src)))

\* C25: a valid handshake with address type 2, length byte N >= 1 and N name
\* bytes decodes to the host name that is those N bytes read as UTF-8, and the
\* header ends addrOffset + 1 + N bytes into the input.
C25_DomainNameDecoded ==
    ( DecoderRan /\ ValidHandshake /\ HsAtype = 2 )
    => /\ out.ok
       /\ IF HsName \in WellFormedNames
          THEN Utf8Encode(out.hostname) = HsName
          ELSE out.hostname = ReplacedText(HsName)
       /\ out.header_len = addrOffset + 1 + HsNameLen
       /\ out.data \o Unread = BytesAfter(addrOffset + 1 + HsNameLen)

C25_Witness ==
    /\ DecoderRan /\ ValidHandshake /\ HsAtype = 2
    /\ HsName = << 195, 169, 46, 105, 111 >>
    /\ out.ok /\ out.data = << 20, 21 >>

\* the handshake holds its command byte, and its command is not the supported
\* one
OtherCommand ==
    /\ HsSecretOk
    /\ Len(SrcBytes) >= addrOffset - 3
    /\ HsCmd # 1

\* C27 as stated: a handshake with the right secret whose command byte is not
\* 1 fails with the unsupported-command error and yields no destination.
C27_OtherCommandUnsupported ==
    ( DecoderRan /\ OtherCommand )
    => ( ~out.ok /\ out.err.kind = "unsupported command" )

\* C27: a handshake with the right secret whose command byte is not 1 and
\* which holds at least addrOffset + 1 bytes fails with the unsupported-command
\* error, which names the command, and yields no destination.
C27_OtherCommandUnsupportedOnceRead ==
    ( DecoderRan /\ OtherCommand /\ Len(SrcBytes) >= addrOffset + 1 )
    => ( /\ ~out.ok
         /\ out.err.kind = "unsupported command" /\ out.err.a = HsCmd
         /\ out.hostname = << >> )

C27_Witness ==
    /\ DecoderRan /\ OtherCommand /\ Len(SrcBytes) >= addrOffset + 1
    /\ HsCmd = 2 /\ HsExtraLen = 1 /\ HsAtype = 4
    /\ out.err.kind = "unsupported command"

\* the handshake holds its address-type byte, its command is the supported one
\* and its address type is not a known one
OtherAddressType ==
    /\ HsSecretOk
    /\ Len(SrcBytes) >= addrOffset
    /\ HsCmd = 1
    /\ HsAtype \notin { 1, 2, 3 }

\* C28 as stated: such a handshake fails with the invalid-address-type error
\* whatever bytes, if any, follow the address-type byte.
C28_OtherAddressTypeInvalid ==
    ( DecoderRan /\ OtherAddressType )
    => ( ~out.ok /\ out.err.kind = "read address type failed" )

\* C28: such a handshake in which at least one byte follows the address-type
\* byte fails with the invalid-address-type error, whatever those bytes are.
C28_OtherAddressTypeInvalidOnceRead ==
    ( DecoderRan /\ OtherAddressType /\ Len(SrcBytes) >= addrOffset + 1 )
    => ( ~out.ok /\ out.err.kind = "read address type failed" )

C28_Witness ==
    /\ DecoderRan /\ OtherAddressType
    /\ Len(SrcBytes) = addrOffset + 1
    /\ HsAtype = 4
    /\ out.err.kind = "read address type failed"

(***************************************************************************)
(* Part 10.  read_atleast on its own.                                      *)
(***************************************************************************)

\* Bounds: fragments per source, bytes asked for.
MaxFrags == 3
MaxRead == 7

\* the chunks a reader may hand over, the empty one included
ReadFrags == { << >>, << 1 >>, << 2, 3 >>, << 4, 5, 6 >> }

\* a source of one to MaxFrags fragments; the source without fragments is the
\* initial one
FeedRead ==
    /\ src = << >>
    /\ out = NoResult
    /\ \E m \in 1..MaxFrags : \E fs \in [1..m -> ReadFrags] : src' = fs
    /\ out' = NoResult
    /\ UNCHANGED sessVars

\* read_atleast(reader, n) on a reader from which nothing has been taken
ReadAtLeast ==
    /\ out = NoResult
    /\ \E n \in 0..MaxRead : out' = [n |-> n, r |-> read_atleast(src, 0, n)]
    /\ UNCHANGED << src >>
    /\ UNCHANGED sessVars

NextRead ==
    \/ FeedRead
    \/ ReadAtLeast

SpecRead == InitDec /\ [][NextRead]_vars

\* read_atleast has run on the source
ReadRan == "n" \in DOMAIN out

\* the numbers of leading fragments that hold n bytes between them
PrefixesHolding(n) == { k \in 0..Len(src) : PrefixLen(src, k) >= n }

\* C29: read_atleast(n) on a source that yields f1..fm and then ends returns
\* the concatenation, in order, of the shortest prefix of fragments that holds
\* n bytes when there is one, and otherwise fails with the truncated-input
\* error reporting n as needed and the bytes obtained; it never returns fewer
\* than n bytes.
C29_ReadAtLeast ==
    ReadRan =>
        IF PrefixesHolding(out.n) # {}
        THEN LET k == CHOOSE x \in PrefixesHolding(out.n) :
                          \A y \in PrefixesHolding(out.n) : x <= y
             IN  /\ out.r.ok
                 /\ out.r.value = Flatten(SubSeq(src, 1, k))
                 /\ out.r.pos = k
                 /\ Len(out.r.value) >= out.n
        ELSE /\ ~out.r.ok
             /\ out.r.err = Err("not enough data", out.n,
                                PrefixLen(src, Len(src)))

C29_Witness ==
    /\ ReadRan
    /\ src = << << 2, 3 >>, << >>, << 4, 5, 6 >> >>
    /\ out.n = 3
    /\ out.r.ok /\ out.r.value = << 2, 3, 4, 5, 6 >>

\* the decoder's result on the same bytes delivered as one fragment
Unsplit == read_vless_header(<< SrcBytes >>, UUID)

\* C30: however a valid handshake is split into non-empty fragments, down to
\* one byte each, read_vless_header returns the same version, host name, port
\* and reply preamble, and the returned leftover followed by the bytes still
\* unread in the source is what follows the header.
C30_SplitIndependent ==
    ( DecoderRan /\ ValidHandshake )
    => \E whole \in { Unsplit } :
          /\ out.ok /\ whole.ok
          /\ out.version = whole.version /\ out.version = SrcBytes[1]
          /\ out.hostname = whole.hostname
          /\ out.port = whole.port
          /\ out.resp = whole.resp /\ out.resp = << SrcBytes[1], 0 >>
          /\ out.data \o Unread = whole.data
          /\ out.data \o Unread = BytesAfter(addrOffset + HsAddrLen)

C30_Witness ==
    /\ DecoderRan /\ ValidHandshake
    /\ SrcBytes = HsDomain
    /\ Len(src) = Len(HsDomain)
    /\ out.ok

\* C31: for a valid handshake delivered in one chunk, the header length is
\* 22 + E + addrLen (addrLen 4, 16 or 1 + N by address type), the leftover is
\* the chunk's bytes from that offset to its end, and the reply preamble is
\* [chunk[0], 0].
C31_HeaderLengthAndLeftover ==
    ( DecoderRan /\ ValidHandshake /\ Len(src) = 1 )
    => /\ out.ok
       /\ out.header_len = 22 + HsExtraLen + HsAddrLen
       /\ out.data = SubSeq(src[1], 22 + HsExtraLen + HsAddrLen + 1, Len(src[1]))
       /\ out.resp = << src[1][1], 0 >>

C31_Witness ==
    /\ DecoderRan /\ ValidHandshake /\ Len(src) = 1
    /\ src[1] = HsIPv4
    /\ out.ok /\ out.header_len = 26
    /\ out.data = << 10, 11, 12, 13, 14 >>

\* the last request handled was the first POST of id's session, chunk 0 with a
\* handshake that decodes, and it was acknowledged
FirstChunkAccepted(id) ==
    /\ resp.method = "POST" /\ resp.id = id /\ resp.seq = 0 /\ resp.status = 200
    /\ Len(hist[id]) = 1 /\ hist[id][1].seq = 0
    /\ HeaderOf(resp.data).ok

\* C32: once chunk 0's handshake has decoded, handling that POST has opened
\* the upstream channel and written the leftover payload to it, with or
\* without a downlink sink attached.
C32_LeftoverForwardedByPost ==
    \A id \in Clients :
        ( impl \in { "vless", "part5" } /\ FirstChunkAccepted(id) )
        => ( /\ ChannelsOf(id, life[id]) # {}
             /\ WrittenTo(upstream, id, life[id]) = HeaderOf(resp.data).data )

\* a request on id returns success in this step
ReturnsSuccess(id) ==
    /\ resp' # resp
    /\ resp'.id = id
    /\ resp'.status = 200

\* a request on id is in flight: a POST waits in a write to the session's sink,
\* or a GET waits at line 455
InFlight(id) ==
    \E w \in 1..Len(sinks) :
        /\ sinks[w].owner = id
        /\ sinks[w].queued \/ sinks[w].awaiting

\* C33: however the sweep interleaves with requests on the same id, a request
\* that returns success has applied its effect (chunk stored, sink attached)
\* to the session that is in the store when it returns, and the sweep does not
\* close the sink of a session on which a request is in flight.
C33_SweepDoesNotRaceRequests ==
    [][ \A id \in Clients :
          /\ ( impl = "vless" /\ ReturnsSuccess(id) )
             => /\ Has(clientRequests', id)
                /\ resp'.method = "POST"
                     => /\ Has(clientRequests'[id].posts, resp'.seq)
                        /\ clientRequests'[id].posts[resp'.seq] = resp'.data
                /\ resp'.method = "GET"
                     => clientRequests'[id].writer = resp'.body
          /\ ( impl = "vless" /\ InFlight(id) /\ Has(clientRequests, id) )
             => \A w \in 1..Len(sinks) :
                   ( w = clientRequests[id].writer /\ sinks[w].open
                     /\ ~Has(clientRequests', id) )
                   => sinks'[w].open ]_vars

\* the downlink sinks of id that are open
OpenSinksOf(id) ==
    { w \in DownlinkSinks : sinks[w].owner = id /\ sinks[w].open }

\* C34: handlers of one session that interleave at their awaits leave the
\* session, and what was written, as the same requests run one at a time in
\* some order would.  Run one at a time, every GET closes the sink attached
\* before it and records its own: once no GET handler is suspended, a session
\* has at most one open downlink sink.
C34_InterleavedAsOneAtATime ==
    ( impl = "vless" /\ Suspended = {} )
    => \A id \in Clients : Cardinality(OpenSinksOf(id)) <= 1

\* Both pumps of relay() have left their loops and run their finally blocks.
PumpsFinished ==
    pumps.up \in { "done", "failed" } /\ pumps.down \in { "done", "failed" }

\* C35: when the uplink pump ends because the client's byte source ended, only
\* the upstream's write direction is closed: as long as the upstream itself
\* has not ended, its read direction stays open for the downlink pump.
C35_UplinkEndHalfCloses ==
    ( pumps.upEnd = "eof" /\ ~pumps.remoteEnded ) => pumps.conn.readOpen

\* C36: relay() returns only after both of its pumps have finished.
C36_RelayJoinsBothPumps ==
    pumps.relay = "returned" =>
        pumps.up # "running" /\ pumps.down # "running"

\* C37: once both pumps have finished, the upstream connection has been
\* closed exactly once, whatever ended them.
C37_UpstreamClosedExactlyOnce ==
    PumpsFinished => pumps.conn.closes = 1

\* C38: every POST of chunk 0 and every GET attach returns an HTTP response:
\* the handler is never left waiting on the write into a stream from whose
\* readable side no reader has been taken yet.
C38_HandshakeHandoffNeverBlocks ==
    ( \/ resp.method = "POST" /\ resp.seq = 0
      \/ resp.method = "GET" ) => resp.status # Pending

\* the positions in a sink's writes at which the reply preamble stands
PreamblesIn(w) ==
    { k \in 1..Len(sinks[w].written) : sinks[w].written[k].from = "preamble" }

\* C39: over the POSTs and GET attaches of a session, the reply preamble is
\* written to each downlink sink at most once, and where it is written it is
\* the first thing written to that sink.
C39_PreambleOnceAndFirst ==
    impl = "vless" =>
        \A w \in DownlinkSinks : PreamblesIn(w) \subseteq { 1 }

\* the session stored under id b and the sink it holds are the same before
\* and after the step
SessionUntouched(b) ==
    /\ Has(clientRequests', b) <=> Has(clientRequests, b)
    /\ Has(clientRequests, b) =>
         /\ clientRequests'[b] = clientRequests[b]
         /\ clientRequests[b].writer # NoWriter =>
              sinks'[clientRequests[b].writer] = sinks[clientRequests[b].writer]
    /\ hist'[b] = hist[b]
    /\ life'[b] = life[b]

\* C40: a POST or GET for session id A leaves every other session unchanged:
\* buffer, sequence counter, destination, sink and last-activity time of every
\* id B other than A are the same before and after the request, whatever the
\* request's outcome.
C40_OtherSessionsUntouched ==
    [][ \A a \in Ids :
          ( steps' = steps + 1 /\ resp'.id = a )
          => \A b \in Ids \ { a } : SessionUntouched(b) ]_vars

\* a request for s1 has been handled after s2 got a destination and a sink and
\* was last active at an earlier time
C40_Witness ==
    /\ resp.id = "s1"
    /\ Has(clientRequests, "s2")
    /\ clientRequests["s2"].targetInfo # NoTarget
    /\ clientRequests["s2"].writer # NoWriter
    /\ Len(sinks[clientRequests["s2"].writer].written) > 0
    /\ clientRequests["s2"].lastActivity < now
    /\ clientRequests["s1"].lastActivity = now

====
